---- MODULE Spec2Model ----
(***************************************************************************)
(* LegalEase: the document analysis pipeline (legal_processor.py) and the  *)
(* request handlers that call it (app.py).  Texts are TLA+ strings, so the *)
(* rule-based extractors are computed on characters as the code computes   *)
(* them.                                                                   *)
(***************************************************************************)
EXTENDS Integers, Sequences, FiniteSets, TLC

(***************************************************************************)
(* Python str primitives.  The ones that take strings are functions: a     *)
(* function's argument is a value, where an operator's argument is an      *)
(* expression evaluated again at each of its uses.                         *)
(***************************************************************************)

\* F of the value of v, for a v that F uses more than once
With(v, F(_)) == CHOOSE r \in {F(x) : x \in {v}} : TRUE

Char(s, i) == SubSeq(s, i, i)

Min(S) == CHOOSE x \in S : \A y \in S : x <= y

Max(S) == CHOOSE x \in S : \A y \in S : x >= y

UpperChars ==
    {"A", "B", "C", "D", "E", "F", "G", "H", "I", "J", "K", "L", "M",
     "N", "O", "P", "Q", "R", "S", "T", "U", "V", "W", "X", "Y", "Z"}

LowerOf ==
    [c \in UpperChars |->
        CASE c = "A" -> "a" [] c = "B" -> "b" [] c = "C" -> "c" [] c = "D" -> "d"
          [] c = "E" -> "e" [] c = "F" -> "f" [] c = "G" -> "g" [] c = "H" -> "h"
          [] c = "I" -> "i" [] c = "J" -> "j" [] c = "K" -> "k" [] c = "L" -> "l"
          [] c = "M" -> "m" [] c = "N" -> "n" [] c = "O" -> "o" [] c = "P" -> "p"
          [] c = "Q" -> "q" [] c = "R" -> "r" [] c = "S" -> "s" [] c = "T" -> "t"
          [] c = "U" -> "u" [] c = "V" -> "v" [] c = "W" -> "w" [] c = "X" -> "x"
          [] c = "Y" -> "y" [] c = "Z" -> "z"]

\* str.isspace() for the characters that occur in request bodies
WhiteChars == {" ", "\n", "\t", "\r"}

\* str.lower()
Lower[s \in STRING] ==
    IF Len(s) = 0 THEN s
    ELSE IF Len(s) = 1 THEN (IF s \in UpperChars THEN LowerOf[s] ELSE s)
    ELSE Lower[SubSeq(s, 1, Len(s) \div 2)] \o Lower[SubSeq(s, Len(s) \div 2 + 1, Len(s))]

\* kw in s
Contains[s \in STRING, kw \in STRING] ==
    \E i \in 1..(Len(s) - Len(kw) + 1) : SubSeq(s, i, i + Len(kw) - 1) = kw

\* s.find(kw), 1-based; 0 when absent (Python: 0-based, -1 when absent)
Find[s \in STRING, kw \in STRING] ==
    LET at == {i \in 1..(Len(s) - Len(kw) + 1) : SubSeq(s, i, i + Len(kw) - 1) = kw}
    IN  IF at = {} THEN 0 ELSE CHOOSE i \in at : \A j \in at : i <= j

\* any(kw in s for kw in kws), kws a sequence
AnyIn[s \in STRING, kws \in Seq(STRING)] == \E k \in 1..Len(kws) : Contains[s, kws[k]]

\* str.lstrip(), str.rstrip(), str.strip()
LStrip[s \in STRING] ==
    IF Len(s) > 0 /\ Char(s, 1) \in WhiteChars THEN LStrip[SubSeq(s, 2, Len(s))] ELSE s

RStrip[s \in STRING] ==
    IF Len(s) > 0 /\ Char(s, Len(s)) \in WhiteChars
    THEN RStrip[SubSeq(s, 1, Len(s) - 1)] ELSE s

Strip[s \in STRING] == RStrip[LStrip[s]]

\* The pieces of l \o r from the pieces of l and of r: the last piece of l
\* and the first of r are one piece
Glue[l \in Seq(STRING), r \in Seq(STRING)] ==
    SubSeq(l, 1, Len(l) - 1) \o <<l[Len(l)] \o r[1]>> \o Tail(r)

\* The pieces of s around every single character of seps, empty pieces
\* included: s[:h] and s[h:] are split and the two pieces at the cut joined
SplitEach[s \in STRING, seps \in SUBSET STRING] ==
    IF Len(s) = 0 THEN <<"">>
    ELSE IF Len(s) = 1 THEN (IF s \in seps THEN <<"", "">> ELSE <<s>>)
    ELSE Glue[SplitEach[SubSeq(s, 1, Len(s) \div 2), seps],
              SplitEach[SubSeq(s, Len(s) \div 2 + 1, Len(s)), seps]]

\* The items of seq at the indices idx, in their order
Pick(seq, idx) ==
    With(seq, LAMBDA q : With(idx, LAMBDA at :
        [k \in 1..Cardinality(at) |->
            q[CHOOSE i \in at : Cardinality({j \in at : j <= i}) = k]]))

\* [x for x in seq if keep(x)]
Filter(seq, keep(_)) ==
    With(seq, LAMBDA q : Pick(q, {i \in 1..Len(q) : keep(q[i])}))

\* str.split(c) for a one-character separator
SplitChar[s \in STRING, c \in STRING] == SplitEach[s, {c}]

SentenceTerminators == {".", "!", "?"}

\* re.split(r'[.!?]+', s): a run of terminators is one separator, so of the
\* pieces around every terminator the empty ones inside a run go
SplitSentences[s \in STRING] ==
    With(SplitEach[s, SentenceTerminators], LAMBDA each :
        Pick(each, {i \in 1..Len(each) : i = 1 \/ i = Len(each) \/ each[i] # ""}))

\* "\n".join(seq) and the like
Join[seq \in Seq(STRING), sep \in STRING] ==
    IF seq = <<>> THEN ""
    ELSE IF Len(seq) = 1 THEN seq[1]
    ELSE seq[1] \o sep \o Join[Tail(seq), sep]

\* re.split(r'\n\s*\n', s): a separator runs from a newline over lines of
\* white space only to a later newline (\s* is greedy), so the pieces are
\* the groups of lines between such lines; the first and the last line are
\* no separators
SplitParagraphs[s \in STRING] ==
    With(SplitEach[s, {"\n"}], LAMBDA lines :
    With({i \in 2..(Len(lines) - 1) : Strip[lines[i]] = ""}, LAMBDA blank :
    With(Pick([i \in 1..Len(lines) |-> i],
              {i \in 1..Len(lines) : i \notin blank /\ (i = 1 \/ (i - 1) \in blank)}),
         LAMBDA starts :
        [n \in 1..Len(starts) |->
            Join[SubSeq(lines, starts[n],
                        Min({j \in starts[n]..Len(lines) :
                                j = Len(lines) \/ (j + 1) \in blank})), "\n"]])))

\* set(s.split()): the words of s between runs of white space
WordSet[s \in STRING] ==
    With(SplitEach[s, WhiteChars], LAMBDA each : {each[i] : i \in 1..Len(each)} \ {""})

\* s[:n] + "..." if len(s) > n else s
Ellipsis[s \in STRING, n \in Nat] == IF Len(s) > n THEN SubSeq(s, 1, n) \o "..." ELSE s

\* seq[:n]
Take(seq, n) == With(seq, LAMBDA q : SubSeq(q, 1, IF Len(q) < n THEN Len(q) ELSE n))

\* s * n
RECURSIVE Repeat(_, _)
Repeat(s, n) ==
    IF n = 0 THEN ""
    ELSE IF n = 1 THEN s
    ELSE Repeat(s, n \div 2) \o Repeat(s, n - (n \div 2))

(***************************************************************************)
(* Python re.  A pattern is a tree of records; a match is tried from a     *)
(* position of the subject and yields the ways it can end, the one the     *)
(* backtracking matcher takes first coming first.  Every pattern with      *)
(* letters is compiled with re.IGNORECASE or applied to lowered text, so   *)
(* patterns are written in lower case and matched on the lowered subject.  *)
(***************************************************************************)

Digits == {"0", "1", "2", "3", "4", "5", "6", "7", "8", "9"}

Letters == {LowerOf[c] : c \in UpperChars}

\* \w
WordChars == Letters \cup Digits \cup {"_"}

\* No upper limit of a repetition: *, +
Unbounded == 1000000

Lit(s) == [op |-> "lit", s |-> s]

In(chars) == [op |-> "in", chars |-> chars]

NotIn(chars) == [op |-> "notin", chars |-> chars]

Cat(parts) == [op |-> "cat", parts |-> parts]

Alt(parts) == [op |-> "alt", parts |-> parts]

Rep(of, min, max) == [op |-> "rep", of |-> of, min |-> min, max |-> max, greedy |-> TRUE]

Lazy(of, min, max) == [op |-> "rep", of |-> of, min |-> min, max |-> max, greedy |-> FALSE]

Opt(of) == Rep(of, 0, 1)

Star(of) == Rep(of, 0, Unbounded)

Plus(of) == Rep(of, 1, Unbounded)

Grp(of) == [op |-> "grp", of |-> of]

WordB == [op |-> "wordb"]

Digit == In(Digits)

Space == In(WhiteChars)

Word == In(WordChars)

AnyChar == NotIn({"\n"})

\* seqs[1] + seqs[2] + ..., by halves
RECURSIVE Flat(_)
Flat(seqs) ==
    With(seqs, LAMBDA q :
        IF q = <<>> THEN <<>>
        ELSE IF Len(q) = 1 THEN q[1]
        ELSE Flat(SubSeq(q, 1, Len(q) \div 2)) \o Flat(SubSeq(q, Len(q) \div 2 + 1, Len(q))))

\* How many characters of s from position i on are (or, for "notin", are
\* not) in the class, up to max
RunLength(class, s, i, max) ==
    LET Fits(j) == (Char(s, j) \in class.chars) = (class.op = "in")
        last == IF Len(s) < i + max - 1 THEN Len(s) ELSE i + max - 1
        stops == {j \in i..last : ~Fits(j)}
    IN  IF stops = {} THEN last - i + 1
        ELSE (CHOOSE j \in stops : \A k \in stops : j <= k) - i

\* Whether position i of s holds a word character (\b compares two sides)
IsWordAt(s, i) == i >= 1 /\ i <= Len(s) /\ Char(s, i) \in WordChars

\* The ways re matches s from m.at on, in the matcher's order; m.g is the
\* span of group 1 so far
RECURSIVE ReMatch(_, _, _)
ReMatch(re, s, m) ==
    CASE re.op = "lit" ->
            IF m.at + Len(re.s) - 1 <= Len(s) /\ SubSeq(s, m.at, m.at + Len(re.s) - 1) = re.s
            THEN <<[m EXCEPT !.at = @ + Len(re.s)]>> ELSE <<>>
      [] re.op = "in" ->
            IF m.at <= Len(s) /\ Char(s, m.at) \in re.chars
            THEN <<[m EXCEPT !.at = @ + 1]>> ELSE <<>>
      [] re.op = "notin" ->
            IF m.at <= Len(s) /\ Char(s, m.at) \notin re.chars
            THEN <<[m EXCEPT !.at = @ + 1]>> ELSE <<>>
      [] re.op = "wordb" ->
            IF IsWordAt(s, m.at - 1) # IsWordAt(s, m.at) THEN <<m>> ELSE <<>>
      [] re.op = "alt" ->
            Flat([k \in 1..Len(re.parts) |-> ReMatch(re.parts[k], s, m)])
      [] re.op = "cat" ->
            IF re.parts = <<>> THEN <<m>>
            ELSE With(ReMatch(Head(re.parts), s, m), LAMBDA first :
                    Flat([k \in 1..Len(first) |-> ReMatch(Cat(Tail(re.parts)), s, first[k])]))
      [] re.op = "grp" ->
            With(ReMatch(re.of, s, m), LAMBDA inner :
                [k \in 1..Len(inner) |-> [inner[k] EXCEPT !.g = <<m.at, inner[k].at>>]])
      [] re.op = "rep" /\ re.of.op \in {"in", "notin"} ->
            \* a class repeated: the longest run first, or the shortest
            With(RunLength(re.of, s, m.at, re.max), LAMBDA run :
                IF run < re.min THEN <<>>
                ELSE [k \in 1..(run - re.min + 1) |->
                        [m EXCEPT !.at = @ + (IF re.greedy THEN run - k + 1
                                              ELSE re.min + k - 1)]])
      [] re.op = "rep" /\ re.of.op \notin {"in", "notin"} ->
            With(IF re.min > 0 THEN <<>> ELSE <<m>>, LAMBDA stop :
            With(IF re.max = 0 THEN <<>>
                 ELSE With(ReMatch(re.of, s, m), LAMBDA once :
                        Flat([k \in 1..Len(once) |->
                            IF once[k].at = m.at THEN <<>>
                            ELSE ReMatch([re EXCEPT !.min = IF @ > 0 THEN @ - 1 ELSE 0,
                                                    !.max = @ - 1], s, once[k])])),
                 LAMBDA more :
                IF re.greedy THEN more \o stop ELSE stop \o more))

NoGroup == <<0, 0>>

NoMatch == [at |-> 0, g |-> NoGroup]

\* The matches re.finditer yields from position i on, firsts[j] being the
\* match the matcher finds at position j: each the span [from, to) of the
\* match and of its group 1
RECURSIVE MatchesFrom(_, _)
MatchesFrom(firsts, i) ==
    With({j \in i..Len(firsts) : firsts[j] # NoMatch}, LAMBDA starts :
        IF starts = {} THEN <<>>
        ELSE With(CHOOSE j \in starts : \A k \in starts : j <= k, LAMBDA j :
                <<[from |-> j, to |-> firsts[j].at, g |-> firsts[j].g]>> \o
                MatchesFrom(firsts, IF firsts[j].at > j THEN firsts[j].at ELSE j + 1)))

FindIter(re, s) ==
    With([i \in 1..(Len(s) + 1) |->
            With(ReMatch(re, s, [at |-> i, g |-> NoGroup]), LAMBDA ways :
                IF ways = <<>> THEN NoMatch ELSE ways[1])],
         LAMBDA firsts : MatchesFrom(firsts, 1))

\* re.findall(re, text, re.IGNORECASE): group 1 of each match when the
\* pattern has a group, the whole match otherwise
FindAll(re, text) ==
    With(text, LAMBDA t : With(Lower[t], LAMBDA lowered :
    With(FindIter(re, lowered), LAMBDA found :
        [k \in 1..Len(found) |->
            IF found[k].g # NoGroup THEN SubSeq(t, found[k].g[1], found[k].g[2] - 1)
            ELSE SubSeq(t, found[k].from, found[k].to - 1)])))

\* (?:\.\d{2})?
Cents == Opt(Cat(<<Lit("."), Rep(Digit, 2, 2)>>))

\* \d+(?:,\d{3})*
Thousands == Cat(<<Plus(Digit), Star(Cat(<<Lit(","), Rep(Digit, 3, 3)>>))>>)

\* \w+\s+\d{1,2},?\s+\d{4}
MonthDayYear ==
    Cat(<<Plus(Word), Plus(Space), Rep(Digit, 1, 2), Opt(Lit(",")), Plus(Space), Rep(Digit, 4, 4)>>)

\* The patterns of extract_key_entities, in the order of the dictionary
EntityPatterns ==
    << [name |-> "amounts",
        re |-> Alt(<< Cat(<<Lit("$"), Plus(In(Digits \cup {","})), Cents>>),
                      Cat(<<WordB, Thousands, Cents, Star(Space),
                            Alt(<<Cat(<<Lit("dollar"), Opt(Lit("s"))>>), Lit("usd"), Lit("$")>>)>>) >>)],
       [name |-> "dates",
        re |-> Cat(<<WordB,
                     Alt(<< Cat(<<Rep(Digit, 1, 2), In({"/", "-"}), Rep(Digit, 1, 2),
                                  In({"/", "-"}), Rep(Digit, 2, 4)>>),
                            MonthDayYear,
                            Cat(<<Rep(Digit, 1, 2), Plus(Space), Plus(Word), Plus(Space),
                                  Rep(Digit, 4, 4)>>) >>)>>)],
       [name |-> "percentages",
        re |-> Alt(<< Cat(<<WordB, Plus(Digit), Opt(Cat(<<Lit("."), Plus(Digit)>>)), Lit("%")>>),
                      Cat(<<WordB, Plus(Digit), Opt(Cat(<<Lit("."), Plus(Digit)>>)), Star(Space),
                            Lit("percent")>>) >>)],
       [name |-> "timeframes",
        re |-> Cat(<<WordB, Plus(Digit), Star(Space),
                     Alt(<<Cat(<<Lit("day"), Opt(Lit("s"))>>), Cat(<<Lit("week"), Opt(Lit("s"))>>),
                           Cat(<<Lit("month"), Opt(Lit("s"))>>), Cat(<<Lit("year"), Opt(Lit("s"))>>),
                           Cat(<<Lit("hour"), Opt(Lit("s"))>>)>>),
                     WordB>>)],
       [name |-> "addresses",
        re |-> Cat(<<WordB, Plus(Digit), Plus(Space), In(Letters),
                     Plus(In(Letters \cup WhiteChars)),
                     Alt(<<Lit("street"), Cat(<<Lit("st"), Opt(Lit("."))>>),
                           Lit("avenue"), Cat(<<Lit("ave"), Opt(Lit("."))>>),
                           Lit("road"), Cat(<<Lit("rd"), Opt(Lit("."))>>),
                           Lit("drive"), Cat(<<Lit("dr"), Opt(Lit("."))>>),
                           Lit("lane"), Cat(<<Lit("ln"), Opt(Lit("."))>>)>>)>>)],
       [name |-> "phone_numbers",
        re |-> Cat(<<WordB, Opt(Lit("(")), Rep(Digit, 3, 3), Opt(Lit(")")),
                     Opt(In({"-", "."} \cup WhiteChars)), Rep(Digit, 3, 3),
                     Opt(In({"-", "."} \cup WhiteChars)), Rep(Digit, 4, 4), WordB>>)],
       [name |-> "email_addresses",
        re |-> Cat(<<WordB, Plus(In(Letters \cup Digits \cup {".", "_", "%", "+", "-"})), Lit("@"),
                     Plus(In(Letters \cup Digits \cup {".", "-"})), Lit("."),
                     Rep(In(Letters \cup {"|"}), 2, Unbounded), WordB>>)] >>

(***************************************************************************)
(* Question answering: legal_processor.py, ask_keyword_question and its    *)
(* helpers.  A confidence is held in tenths (9 is 0.9).                    *)
(***************************************************************************)

OverlapMin == 2

ClauseMinLen == 30

ClauseKeepLen == 50

ClauseMaxLen == 250

MaxClauses == 5

\* len(question_words.intersection(sentence_words))
Overlap(question_words, sentence) ==
    Cardinality(question_words \cap WordSet[Lower[sentence]])

\* _extract_relevant_clauses(context, question)
ExtractRelevantClauses[context \in STRING, question \in STRING] ==
    With(WordSet[Lower[question]], LAMBDA question_words :
        LET Relevant(sentence) ==
                /\ Len(Strip[sentence]) >= ClauseMinLen
                /\ Overlap(question_words, sentence) >= OverlapMin
                /\ Len(Strip[sentence]) > ClauseKeepLen
        IN  With(Filter(SplitSentences[context], Relevant), LAMBDA kept :
                Take([k \in 1..Len(kept) |-> Ellipsis[Strip[kept[k]], ClauseMaxLen]],
                     MaxClauses)))

BaseQuestions ==
    << "What are the key payment obligations?",
       "How can this contract be terminated?",
       "What happens if there's a breach of contract?",
       "Are there any liability limitations?",
       "What are the warranty provisions?",
       "How are disputes resolved?",
       "What are the renewal terms?",
       "What are the confidentiality requirements?",
       "What intellectual property rights are involved?",
       "What are the performance standards?" >>

SimilarWords == 3

MaxFollowUps == 6

\* _generate_follow_up_questions(original_question, context)
GenerateFollowUpQuestions[original_question \in STRING] ==
    With(WordSet[Lower[original_question]], LAMBDA original_words :
        LET Different(q) ==
                Cardinality(original_words \cap WordSet[Lower[q]]) < SimilarWords
        IN  Take(Filter(BaseQuestions, Different), MaxFollowUps))

CannedFollowUps ==
    << "What are the payment terms?",
       "How can this contract be terminated?",
       "What are the main obligations?",
       "What are the liability provisions?" >>

\* The topics with the termination branch tested before the payment branch
TopicsTerminationFirst ==
    << [ask   |-> <<"terminate", "end", "cancel", "termination">>,
        look  |-> <<"terminate", "termination", "end", "cancel", "expire">>,
        head  |-> "Regarding termination, the contract states:\n\n",
        none  |-> "No specific termination clauses found in this contract."],
       [ask   |-> <<"payment", "pay", "cost", "fee", "money", "amount">>,
        look  |-> <<"payment", "pay", "fee", "cost", "$", "amount">>,
        head  |-> "Based on the contract, here are the payment-related terms:\n\n",
        none  |-> "No specific payment terms found in this contract."],
       [ask   |-> <<"risk", "liability", "damage", "harm">>,
        look  |-> <<"liability", "damage", "risk", "harm", "loss", "indemnify">>,
        head  |-> "Regarding risks and liability:\n\n",
        none  |-> "No specific liability or risk clauses found."],
       [ask   |-> <<"obligation", "duty", "must", "shall", "required">>,
        look  |-> <<"shall", "must", "obligation", "duty", "required", "responsible">>,
        head  |-> "The contract establishes these obligations:\n\n",
        none  |-> "No specific obligations found."] >>

\* The topics with a payment line found by its words only, "$" left out
TopicsNoDollar ==
    << [ask   |-> <<"payment", "pay", "cost", "fee", "money", "amount">>,
        look  |-> <<"payment", "pay", "fee", "cost", "amount">>,
        head  |-> "Based on the contract, here are the payment-related terms:\n\n",
        none  |-> "No specific payment terms found in this contract."],
       [ask   |-> <<"terminate", "end", "cancel", "termination">>,
        look  |-> <<"terminate", "termination", "end", "cancel", "expire">>,
        head  |-> "Regarding termination, the contract states:\n\n",
        none  |-> "No specific termination clauses found in this contract."],
       [ask   |-> <<"risk", "liability", "damage", "harm">>,
        look  |-> <<"liability", "damage", "risk", "harm", "loss", "indemnify">>,
        head  |-> "Regarding risks and liability:\n\n",
        none  |-> "No specific liability or risk clauses found."],
       [ask   |-> <<"obligation", "duty", "must", "shall", "required">>,
        look  |-> <<"shall", "must", "obligation", "duty", "required", "responsible">>,
        head  |-> "The contract establishes these obligations:\n\n",
        none  |-> "No specific obligations found."] >>

\* The topics of ask_keyword_question in the order of its if/elif chain:
\* the words looked for in the question, the words looked for in a line of
\* the context, the answer's heading and the answer when no line matches.
Topics ==
    << [ask   |-> <<"payment", "pay", "cost", "fee", "money", "amount">>,
        look  |-> <<"payment", "pay", "fee", "cost", "$", "amount">>,
        head  |-> "Based on the contract, here are the payment-related terms:\n\n",
        none  |-> "No specific payment terms found in this contract."],
       [ask   |-> <<"terminate", "end", "cancel", "termination">>,
        look  |-> <<"terminate", "termination", "end", "cancel", "expire">>,
        head  |-> "Regarding termination, the contract states:\n\n",
        none  |-> "No specific termination clauses found in this contract."],
       [ask   |-> <<"risk", "liability", "damage", "harm">>,
        look  |-> <<"liability", "damage", "risk", "harm", "loss", "indemnify">>,
        head  |-> "Regarding risks and liability:\n\n",
        none  |-> "No specific liability or risk clauses found."],
       [ask   |-> <<"obligation", "duty", "must", "shall", "required">>,
        look  |-> <<"shall", "must", "obligation", "duty", "required", "responsible">>,
        head  |-> "The contract establishes these obligations:\n\n",
        none  |-> "No specific obligations found."] >>

MaxTopicLines == 3

\* Branch t of the if/elif chain: the lines of the context that hold a
\* word of the topic, stripped, the first three joined under the heading.
TopicAnswer[t \in 1..4, context \in STRING] ==
    LET Hit(section) == AnyIn[Lower[section], Topics[t].look]
    IN  With(Filter(SplitChar[context, "\n"], Hit), LAMBDA found :
            IF found # <<>>
            THEN Topics[t].head \o
                 Join[Take([k \in 1..Len(found) |-> Strip[found[k]]], MaxTopicLines), "\n\n"]
            ELSE Topics[t].none)

GenericMinLen == 20

GenericHead ==
    "Based on your question, here are the most relevant parts of the contract:\n\n"

GenericNone ==
    "I couldn't find specific information related to your question in this contract. Please try asking about payment terms, termination conditions, obligations, or liability provisions."

\* list.sort(reverse=True, key=overlap): descending, equal keys in their
\* original order
SortByOverlapDesc(pairs) ==
    With(pairs, LAMBDA p :
        LET Pos(i) == Cardinality({j \in 1..Len(p) : p[j][1] > p[i][1]})
                      + Cardinality({j \in 1..i : p[j][1] = p[i][1]})
        IN  [k \in 1..Len(p) |-> p[CHOOSE i \in 1..Len(p) : Pos(i) = k]])

\* The else branch: the sentences sharing words with the question
GenericAnswer[question_lower \in STRING, context \in STRING] ==
    With(WordSet[question_lower], LAMBDA question_words :
        LET Hit(sentence) ==
                /\ Len(Strip[sentence]) >= GenericMinLen
                /\ Overlap(question_words, sentence) >= OverlapMin
        IN  With(Filter(SplitChar[context, "."], Hit), LAMBDA found :
            With(SortByOverlapDesc([k \in 1..Len(found) |->
                    <<Overlap(question_words, found[k]), Strip[found[k]]>>]),
                 LAMBDA relevant_sentences :
                IF relevant_sentences # <<>>
                THEN GenericHead \o
                     Join[[k \in 1..Len(Take(relevant_sentences, MaxTopicLines)) |->
                              relevant_sentences[k][2]], "\n\n"]
                ELSE GenericNone)))

\* The first topic with a word in the question; 0 when there is none
TopicOf[question_lower \in STRING] ==
    With({t \in 1..Len(Topics) : AnyIn[question_lower, Topics[t].ask]}, LAMBDA hits :
        IF hits = {} THEN 0 ELSE Min(hits))

KeywordAnswer[question \in STRING, context \in STRING] ==
    With(Lower[question], LAMBDA question_lower :
        With(TopicOf[question_lower], LAMBDA t :
            IF t # 0 THEN TopicAnswer[t, context]
            ELSE GenericAnswer[question_lower, context]))

ConfidenceKeyword == 7

ConfidenceLLM == 9

\* ask_keyword_question(question, context)
AskKeywordQuestion(question, context) ==
    [answer                |-> KeywordAnswer[question, context],
     relevant_clauses      |-> ExtractRelevantClauses[context, question],
     confidence            |-> ConfidenceKeyword,
     follow_up_suggestions |-> CannedFollowUps]

\* The dictionary ask_openai_question returns when the model answered
LLMAnswerCanned(response_text, question, context) ==
    [answer                |-> Strip[response_text],
     relevant_clauses      |-> ExtractRelevantClauses[context, question],
     confidence            |-> ConfidenceLLM,
     follow_up_suggestions |-> CannedFollowUps]

LLMAnswer(response_text, question, context) ==
    [answer                |-> Strip[response_text],
     relevant_clauses      |-> ExtractRelevantClauses[context, question],
     confidence            |-> ConfidenceLLM,
     follow_up_suggestions |-> GenerateFollowUpQuestions[question]]

(***************************************************************************)
(* Contract analysis: legal_processor.py, the steps of process_contract    *)
(***************************************************************************)

DigitOf == <<"0", "1", "2", "3", "4", "5", "6", "7", "8", "9">>

\* str(n), n >= 0
Str[n \in Nat] == IF n < 10 THEN DigitOf[n + 1] ELSE Str[n \div 10] \o DigitOf[(n % 10) + 1]

Sum[ns \in Seq(Int)] == IF ns = <<>> THEN 0 ELSE Head(ns) + Sum[Tail(ns)]

\* [s.strip() for s in seq]
Stripped(seq) == With(seq, LAMBDA q : [k \in 1..Len(q) |-> Strip[q[k]]])

\* Every item kept, repeated or not
Repeated(seq) == seq

\* list(dict.fromkeys(seq)): the first occurrence of each item
Distinct(seq) ==
    With(seq, LAMBDA q : Pick(q, {i \in 1..Len(q) : \A j \in 1..(i - 1) : q[j] # q[i]}))

\* sum(1 for kw in kws if kw in s)
CountIn[s \in STRING, kws \in Seq(STRING)] ==
    Cardinality({k \in 1..Len(kws) : Contains[s, kws[k]]})

\* A later score that replaces the one kept when it is as great
ExceedsOrEquals(score, kept) == score >= kept

\* if keyword_matches > best_match[1]
Exceeds(score, kept) == score > kept

\* A loop that keeps the index of a score only when it is greater than the
\* score kept so far (best = 0: nothing kept yet, score 0): k runs on
KeepGreater[scores \in Seq(Int), k \in Nat, best \in Nat] ==
    IF k > Len(scores) THEN best
    ELSE KeepGreater[scores, k + 1,
                     IF Exceeds(scores[k], IF best = 0 THEN 0 ELSE scores[best]) THEN k
                     ELSE best]

\* _extract_context_around_phrase(text, phrase, context_length)
ExtractContextAroundPhrase[text \in STRING, phrase \in STRING, context_length \in Nat] ==
    With(Find[Lower[text], Lower[phrase]] - 1, LAMBDA index :
        IF index = -1 THEN "The term '" \o phrase \o "' appears in the contract"
        ELSE LET start == Max({0, index - context_length})
                 end == Min({Len(text), index + Len(phrase) + context_length})
             IN  Ellipsis[Strip[SubSeq(text, start + 1, end)], 200])

\* risk_indicators, the three tiers in the order of the dictionary
RiskIndicators ==
    << [tier |-> "high", indicator |-> "unlimited liability", points |-> 3],
       [tier |-> "high", indicator |-> "personal guarantee", points |-> 3],
       [tier |-> "high", indicator |-> "liquidated damages", points |-> 3],
       [tier |-> "high", indicator |-> "specific performance", points |-> 3],
       [tier |-> "high", indicator |-> "criminal liability", points |-> 4],
       [tier |-> "high", indicator |-> "punitive damages", points |-> 3],
       [tier |-> "high", indicator |-> "indemnify", points |-> 2],
       [tier |-> "high", indicator |-> "hold harmless", points |-> 2],
       [tier |-> "high", indicator |-> "strict liability", points |-> 3],
       [tier |-> "high", indicator |-> "immediate termination", points |-> 2],
       [tier |-> "high", indicator |-> "no cure period", points |-> 3],
       [tier |-> "high", indicator |-> "forfeiture", points |-> 3],
       [tier |-> "medium", indicator |-> "limitation of liability", points |-> -1],
       [tier |-> "medium", indicator |-> "material breach", points |-> 2],
       [tier |-> "medium", indicator |-> "cure period", points |-> -1],
       [tier |-> "medium", indicator |-> "force majeure", points |-> -1],
       [tier |-> "medium", indicator |-> "reasonable efforts", points |-> 1],
       [tier |-> "medium", indicator |-> "best efforts", points |-> 2],
       [tier |-> "medium", indicator |-> "consequential damages", points |-> 2],
       [tier |-> "medium", indicator |-> "indirect damages", points |-> 2],
       [tier |-> "medium", indicator |-> "arbitration", points |-> -1],
       [tier |-> "medium", indicator |-> "mediation", points |-> -1],
       [tier |-> "low", indicator |-> "mutual", points |-> -1],
       [tier |-> "low", indicator |-> "standard terms", points |-> -1],
       [tier |-> "low", indicator |-> "industry standard", points |-> -1],
       [tier |-> "low", indicator |-> "reasonable", points |-> -1],
       [tier |-> "low", indicator |-> "good faith", points |-> -1],
       [tier |-> "low", indicator |-> "fair dealing", points |-> -1],
       [tier |-> "low", indicator |-> "customary", points |-> -1],
       [tier |-> "low", indicator |-> "typical", points |-> -1] >>

\* keywords of identify_contract_sections, in the order of the dictionary
SectionKeywords ==
    << [section_type |-> "payment_terms",
        keywords |-> <<"payment", "fee", "cost", "amount", "invoice", "billing",
                     "due", "remuneration", "compensation", "salary", "wage",
                     "price", "consideration", "installment", "deposit">>],
       [section_type |-> "termination_clauses",
        keywords |-> <<"termination", "terminate", "expire", "expiration", "end",
                     "conclude", "dissolution", "cancellation", "breach", "default",
                     "notice period", "wind up">>],
       [section_type |-> "liability_limitations",
        keywords |-> <<"liability", "damages", "limitation", "limit", "responsible",
                     "accountable", "indemnify", "indemnification", "harm", "loss",
                     "consequential", "indirect">>],
       [section_type |-> "warranty_disclaimers",
        keywords |-> <<"warranty", "guarantee", "assurance", "as is", "disclaim",
                     "merchantability", "fitness", "defect", "condition",
                     "representation">>],
       [section_type |-> "confidentiality",
        keywords |-> <<"confidential", "non-disclosure", "nda", "proprietary",
                     "trade secret", "classified", "private", "sensitive">>],
       [section_type |-> "intellectual_property",
        keywords |-> <<"intellectual property", "copyright", "patent", "trademark",
                     "trade secret", "proprietary", "ownership", "license",
                     "derivative works">>],
       [section_type |-> "dispute_resolution",
        keywords |-> <<"dispute", "arbitration", "mediation", "jurisdiction",
                     "governing law", "venue", "litigation", "court">>],
       [section_type |-> "general_terms",
        keywords |-> <<>>] >>

\* contract_types with the fallback subject of type_subjects
ContractTypes ==
    << [contract_type |-> "service agreement",
        keywords |-> <<"service", "services", "provide", "perform", "consulting">>,
        subject |-> "professional services and consulting"],
       [contract_type |-> "employment contract",
        keywords |-> <<"employment", "employee", "employer", "salary", "benefits",
                     "job">>,
        subject |-> "employment relationship and duties"],
       [contract_type |-> "lease agreement",
        keywords |-> <<"lease", "rent", "tenant", "landlord", "property", "premises">>,
        subject |-> "property rental and occupancy"],
       [contract_type |-> "purchase agreement",
        keywords |-> <<"purchase", "buy", "sell", "goods", "product", "merchandise">>,
        subject |-> "goods purchase and delivery"],
       [contract_type |-> "license agreement",
        keywords |-> <<"license", "licensing", "intellectual property", "software",
                     "patent">>,
        subject |-> "intellectual property licensing"],
       [contract_type |-> "partnership agreement",
        keywords |-> <<"partnership", "partner", "joint venture", "collaborate">>,
        subject |-> "business partnership and collaboration"],
       [contract_type |-> "non-disclosure agreement",
        keywords |-> <<"confidential", "non-disclosure", "nda", "proprietary">>,
        subject |-> "confidential information protection"],
       [contract_type |-> "loan agreement",
        keywords |-> <<"loan", "lend", "borrow", "credit", "debt", "principal">>,
        subject |-> "financial lending and repayment"],
       [contract_type |-> "construction contract",
        keywords |-> <<"construction", "build", "contractor", "materials", "project">>,
        subject |-> "construction project and specifications"],
       [contract_type |-> "supply agreement",
        keywords |-> <<"supply", "supplier", "deliver", "goods", "materials">>,
        subject |-> "goods supply and delivery"] >>

\* legal_term_definitions
LegalTermDefinitions ==
    << <<"whereas", "since; considering that">>,
       <<"hereby", "by this document">>,
       <<"herein", "in this document">>,
       <<"hereinafter", "from now on in this document">>,
       <<"heretofore", "before this time">>,
       <<"thereafter", "after that time">>,
       <<"notwithstanding", "despite; in spite of">>,
       <<"pursuant to", "according to; in accordance with">>,
       <<"in consideration of", "in exchange for">>,
       <<"covenant", "legally binding promise">>,
       <<"indemnify", "protect from loss or damage">>,
       <<"liquidated damages", "predetermined compensation for breach">>,
       <<"force majeure", "unforeseeable circumstances beyond control">>,
       <<"breach", "violation of contract terms">>,
       <<"cure", "fix or remedy a problem">>,
       <<"default", "failure to meet obligations">>,
       <<"termination", "ending of the contract">>,
       <<"void", "having no legal effect">>,
       <<"voidable", "can be made void under certain conditions">>,
       <<"severability", "if one part is invalid, the rest remains valid">>,
       <<"waiver", "giving up a right voluntarily">>,
       <<"assignment", "transfer of rights to another party">>,
       <<"novation", "replacement of a contract with a new one">>,
       <<"rescission", "cancellation of a contract">>,
       <<"specific performance", "court order to fulfill contract exactly">>,
       <<"injunctive relief", "court order to do or stop doing something">>,
       <<"damages", "monetary compensation for loss">>,
       <<"consequential damages", "indirect losses resulting from breach">>,
       <<"incidental damages", "additional costs due to breach">>,
       <<"punitive damages", "punishment damages beyond actual loss">>,
       <<"mitigation", "reducing the amount of damages">>,
       <<"material breach", "serious violation affecting the contract's essence">>,
       <<"anticipatory breach", "indication that breach will occur in future">>,
       <<"substantial performance", "performance that meets essential requirements">>,
       <<"conditions precedent", "events that must occur before obligations arise">>,
       <<"conditions subsequent", "events that end existing obligations">>,
       <<"representations", "statements of fact made to induce contract formation">>,
       <<"warranties", "promises about the quality or condition of something">>,
       <<"indemnification", "compensation for harm or loss">>,
       <<"hold harmless", "agreement not to hold someone responsible">>,
       <<"liability", "legal responsibility for damages">>,
       <<"limitation of liability", "restriction on the amount of responsibility">>,
       <<"arbitration", "dispute resolution outside of court">>,
       <<"mediation", "assisted negotiation to resolve disputes">>,
       <<"jurisdiction", "authority of a court to hear a case">>,
       <<"governing law", "which state or country's laws apply">>,
       <<"venue", "location where legal proceedings take place">>,
       <<"statute of limitations", "time limit for bringing legal action">>,
       <<"confidentiality", "obligation to keep information secret">>,
       <<"non-disclosure", "agreement not to reveal information">>,
       <<"proprietary", "privately owned or exclusive">>,
       <<"intellectual property", "creations of the mind (patents, trademarks, etc.)">>,
       <<"trade secret", "confidential business information">>,
       <<"non-compete", "agreement not to compete with former employer">>,
       <<"non-solicitation", "agreement not to recruit employees or customers">>,
       <<"exclusivity", "sole rights to something">>,
       <<"royalty", "payment for use of property or rights">>,
       <<"escrow", "third party holds money/documents until conditions are met">>,
       <<"fiduciary", "relationship of trust and confidence">>,
       <<"due diligence", "reasonable investigation or care">>,
       <<"good faith", "honest intention and fair dealing">>,
       <<"best efforts", "maximum effort reasonably possible">>,
       <<"reasonable efforts", "efforts that a reasonable person would make">>,
       <<"time is of the essence", "deadlines are critically important">> >>

\* The table with the rule for "thereof" ahead of the rule for "hereby"
SimplificationsThereofFirst ==
    << <<"hereinafter", "from now on">>,
       <<"heretofore", "before this">>,
       <<"whereas", "since">>,
       <<"thereof", "of that">>,
       <<"hereby", "by this document">>,
       <<"wherein", "in which">>,
       <<"notwithstanding", "despite">>,
       <<"pursuant to", "according to">>,
       <<"in consideration of", "in exchange for">>,
       <<"force majeure", "unforeseeable circumstances">>,
       <<"liquidated damages", "pre-agreed compensation">>,
       <<"indemnify", "protect from loss">>,
       <<"hold harmless", "not hold responsible">>,
       <<"covenant", "promise">>,
       <<"assign", "transfer">>,
       <<"breach", "break the agreement">>,
       <<"cure", "fix the problem">>,
       <<"default", "fail to meet obligations">>,
       <<"remedy", "solution">>,
       <<"waiver", "giving up a right">>,
       <<"perpetuity", "forever">>,
       <<"forthwith", "immediately">>,
       <<"inter alia", "among other things">>,
       <<"shall", "must">>,
       <<"shall not", "must not">> >>

\* simplifications, in the order of the dictionary
Simplifications ==
    << <<"hereinafter", "from now on">>,
       <<"heretofore", "before this">>,
       <<"whereas", "since">>,
       <<"hereby", "by this document">>,
       <<"thereof", "of that">>,
       <<"wherein", "in which">>,
       <<"notwithstanding", "despite">>,
       <<"pursuant to", "according to">>,
       <<"in consideration of", "in exchange for">>,
       <<"force majeure", "unforeseeable circumstances">>,
       <<"liquidated damages", "pre-agreed compensation">>,
       <<"indemnify", "protect from loss">>,
       <<"hold harmless", "not hold responsible">>,
       <<"covenant", "promise">>,
       <<"assign", "transfer">>,
       <<"breach", "break the agreement">>,
       <<"cure", "fix the problem">>,
       <<"default", "fail to meet obligations">>,
       <<"remedy", "solution">>,
       <<"waiver", "giving up a right">>,
       <<"perpetuity", "forever">>,
       <<"forthwith", "immediately">>,
       <<"inter alia", "among other things">>,
       <<"shall", "must">>,
       <<"shall not", "must not">> >>

\* r'\b(?:penalty|penalties)\b'
PenaltyPattern == Cat(<<WordB, Alt(<<Lit("penalty"), Lit("penalties")>>), WordB>>)

\* The tier indicators present in the lowered text, in table order
IndicatorsFound[text_lower \in STRING] ==
    Pick(RiskIndicators,
         {k \in 1..Len(RiskIndicators) : Contains[text_lower, RiskIndicators[k].indicator]})

RiskType(points) == IF points > 0 THEN "increases" ELSE "reduces"

\* The three rules after the tiers, each with the points it adds
WithoutLimitation[text_lower \in STRING] ==
    IF Contains[text_lower, "without limitation"] THEN 2 ELSE 0

AtWill[text_lower \in STRING] == IF Contains[text_lower, "at will"] THEN 1 ELSE 0

ManyPenalties[text_lower \in STRING] ==
    IF Len(FindIter(PenaltyPattern, text_lower)) > 2 THEN 2 ELSE 0

\* risk_score before the return statement
RawRiskScore[text \in STRING] ==
    With(Lower[text], LAMBDA text_lower :
        With(IndicatorsFound[text_lower], LAMBDA found :
            Sum[[k \in 1..Len(found) |-> found[k].points]]
            + WithoutLimitation[text_lower] + AtWill[text_lower] + ManyPenalties[text_lower]))

\* The if/elif chain on risk_score
RiskLevelClamped(risk_score) ==
    IF Max({0, risk_score}) >= 8 THEN "HIGH"
    ELSE IF Max({0, risk_score}) >= 4 THEN "MEDIUM"
    ELSE IF Max({0, risk_score}) >= 0 THEN "LOW"
    ELSE "VERY LOW"

RiskLevel(risk_score) ==
    IF risk_score >= 8 THEN "HIGH"
    ELSE IF risk_score >= 4 THEN "MEDIUM"
    ELSE IF risk_score >= 0 THEN "LOW"
    ELSE "VERY LOW"

\* risk_reasons before the fallback
RiskReasons[text \in STRING] ==
    With(Lower[text], LAMBDA text_lower :
        With(IndicatorsFound[text_lower], LAMBDA found :
            [k \in 1..Len(found) |->
                "Found '" \o found[k].indicator \o "' which " \o RiskType(found[k].points)
                \o " risk"]
            \o (IF WithoutLimitation[text_lower] > 0
                THEN <<"Broad liability clause without limitations">> ELSE <<>>)
            \o (IF AtWill[text_lower] > 0
                THEN <<"At-will provisions increase uncertainty">> ELSE <<>>)
            \o (IF ManyPenalties[text_lower] > 0
                THEN <<"Multiple penalty clauses identified">> ELSE <<>>)))

\* detailed_analysis before the fallback
DetailedAnalysis[text \in STRING] ==
    With(Lower[text], LAMBDA text_lower :
        With(IndicatorsFound[text_lower], LAMBDA found :
            [k \in 1..Len(found) |->
                [factor  |-> found[k].indicator,
                 impact  |-> RiskType(found[k].points) \o " risk by "
                             \o Str[IF found[k].points < 0 THEN -found[k].points
                                    ELSE found[k].points] \o " points",
                 context |-> Ellipsis[ExtractContextAroundPhrase[text, found[k].indicator, 100],
                                      150]]]
            \o (IF WithoutLimitation[text_lower] > 0
                THEN <<[factor  |-> "without limitation",
                        impact  |-> "increases risk by 2 points",
                        context |-> "Broad liability exposure identified"]>>
                ELSE <<>>)))

\* A list returned as it is, empty or not
NoFallback(list, fallback) == list

\* if not risk_reasons: ... and if not detailed_analysis: ...
OrFallback(list, fallback) == IF list = <<>> THEN <<fallback>> ELSE list

\* assess_contract_risks(text)
AssessContractRisks[text \in STRING] ==
    With(RiskReasons[text], LAMBDA risk_reasons :
    With(DetailedAnalysis[text], LAMBDA detailed_analysis :
        [risk_level |-> RiskLevel(RawRiskScore[text]),
         risk_score |-> Max({0, RawRiskScore[text]}),
         reasons    |->
            Take(OrFallback(risk_reasons, "Standard contract terms with typical risk level"),
                 10),
         detailed_analysis |->
            Take(OrFallback(detailed_analysis,
                            [factor  |-> "general terms",
                             impact  |-> "standard risk level",
                             context |-> "No specific high-risk factors identified"]), 8)]))

\* The paragraphs identify_contract_sections classifies
Paragraphs[text \in STRING] ==
    With(Filter(Stripped(SplitParagraphs[text]), LAMBDA p : Len(p) > 50),
         LAMBDA paragraphs :
        IF paragraphs # <<>> THEN paragraphs
        ELSE Filter(Stripped(SplitSentences[text]), LAMBDA s : Len(s) > 100))

\* best_match after the loop over the keyword tables, as an index of
\* SectionKeywords; 0 is the initial ("general_terms", 0)
BestMatch[paragraph \in STRING] ==
    With(Lower[paragraph], LAMBDA para_lower :
        KeepGreater[[t \in 1..(Len(SectionKeywords) - 1) |->
                        CountIn[para_lower, SectionKeywords[t].keywords]], 1, 0])

\* if best_match[1] > 0: ... classified = True
ClassifiedNever(best_match) == FALSE

Classified(best_match) == best_match > 0

\* The buckets the paragraph is appended to
BucketsOf[paragraph \in STRING] ==
    With(BestMatch[paragraph], LAMBDA best_match :
        (IF best_match > 0 THEN {SectionKeywords[best_match].section_type} ELSE {})
        \cup (IF ~Classified(best_match) THEN {"general_terms"} ELSE {}))

SectionTypes == {SectionKeywords[t].section_type : t \in 1..Len(SectionKeywords)}

\* identify_contract_sections(text)
IdentifyContractSections[text \in STRING] ==
    With(Paragraphs[text], LAMBDA paragraphs :
        With([k \in 1..Len(paragraphs) |-> BucketsOf[paragraphs[k]]], LAMBDA placed :
            [section_type \in SectionTypes |->
                Pick(paragraphs, {k \in 1..Len(paragraphs) : section_type \in placed[k]})]))

\* list(set(items)): the distinct items in the order in which the set
\* yields them, which the interpreter's hash seed decides; seed is read as
\* the number of a rearrangement of the items
RECURSIVE HashOrder(_, _)
HashOrder(items, seed) ==
    With(items, LAMBDA q :
        IF q = <<>> THEN <<>>
        ELSE LET i == (seed % Len(q)) + 1
             IN  <<q[i]>> \o HashOrder(SubSeq(q, 1, i - 1) \o SubSeq(q, i + 1, Len(q)),
                                      seed \div Len(q)))

\* extract_key_entities(text) in a process with the given hash seed
ExtractKeyEntities[text \in STRING, seed \in Nat] ==
    [entity_type \in {EntityPatterns[k].name : k \in 1..Len(EntityPatterns)} |->
        LET pattern == (CHOOSE k \in 1..Len(EntityPatterns) :
                            EntityPatterns[k].name = entity_type)
        IN  Take(HashOrder(Distinct(FindAll(EntityPatterns[pattern].re, text)), seed), 10)]

\* (?:days?|weeks?|months?)
DaysWeeksMonths ==
    Alt(<<Cat(<<Lit("day"), Opt(Lit("s"))>>), Cat(<<Lit("week"), Opt(Lit("s"))>>),
          Cat(<<Lit("month"), Opt(Lit("s"))>>)>>)

\* \d+(?:\.\d+)?
Decimal == Cat(<<Plus(Digit), Opt(Cat(<<Lit("."), Plus(Digit)>>))>>)

\* The pattern lists of extract_financial_terms
AmountPatterns ==
    << Cat(<<Lit("$"), Plus(In(Digits \cup {","})), Cents>>),
       Cat(<<WordB, Thousands, Cents, Star(Space), Lit("dollar"), Opt(Lit("s"))>>),
       Cat(<<WordB, Thousands, Star(Space), Lit("usd")>>) >>

PaymentPatterns ==
    << Cat(<<Alt(<<Lit("within"), Cat(<<Lit("due"), Plus(Space), Lit("in")>>),
                   Cat(<<Lit("payable"), Plus(Space), Lit("in")>>),
                   Cat(<<Lit("paid"), Plus(Space), Lit("within")>>)>>),
             Plus(Space), Grp(Plus(Digit)), Star(Space), DaysWeeksMonths>>),
       Cat(<<Lit("net"), Plus(Space), Grp(Plus(Digit))>>),
       Cat(<<Grp(Plus(Digit)), Star(Space), DaysWeeksMonths, Star(Space),
             Alt(<<Lit("after"), Lit("from"), Lit("following")>>)>>),
       Cat(<<Alt(<<Lit("monthly"), Lit("quarterly"), Lit("annually"), Lit("weekly")>>),
             Plus(Space), Lit("payment"), Opt(Lit("s"))>>) >>

InterestPatterns ==
    << Cat(<<Grp(Decimal), Star(Space), Lit("%"), Star(Space),
             Alt(<<Lit("interest"), Lit("rate"), Lit("annual"),
                   Cat(<<Lit("per"), Plus(Space), Lit("annum")>>)>>)>>),
       Cat(<<Lit("interest"), Lazy(AnyChar, 0, Unbounded), Grp(Decimal), Star(Space),
             Alt(<<Lit("percent"), Lit("%")>>)>>) >>

PaymentMethodPatterns ==
    << Cat(<<WordB,
             Alt(<<Lit("wire transfer"), Lit("check"), Lit("cash"), Lit("credit card"),
                   Lit("bank transfer"), Lit("ach"), Lit("electronic transfer")>>),
             WordB>>) >>

\* The matches of the patterns of a list, one pattern after the other
FindAllOf(patterns, text) ==
    Flat([k \in 1..Len(patterns) |-> FindAll(patterns[k], text)])

\* extract_financial_terms(text)
ExtractFinancialTerms[text \in STRING] ==
    [amounts          |-> Take(Distinct(FindAllOf(AmountPatterns, text)), 10),
     payment_schedule |-> Take(Distinct(FindAllOf(PaymentPatterns, text)), 10),
     penalties        |-> <<>>,
     interest_rates   |->
        With(FindAllOf(InterestPatterns, text), LAMBDA rates :
            Take(Distinct([k \in 1..Len(rates) |-> rates[k] \o "%"]), 10)),
     currencies       |-> <<>>,
     payment_methods  |-> Take(Distinct(FindAllOf(PaymentMethodPatterns, text)), 10)]

\* date_patterns of extract_timeline: the words that open the pattern and
\* the event; each pattern is (?:words).*?(\w+\s+\d{1,2},?\s+\d{4})
DatePatterns ==
    << [words |-> <<"effective", "commence", "start", "begin", "execution">>,
        event |-> "Contract Start"],
       [words |-> <<"expire", "end", "terminate", "conclusion", "completion">>,
        event |-> "Contract End"],
       [words |-> <<"due", "payable", "payment">>, event |-> "Payment Due"],
       [words |-> <<"delivery", "deliver", "provided">>, event |-> "Delivery Date"],
       [words |-> <<"review", "evaluation", "assessment">>, event |-> "Review Date"] >>

DatePattern(words) ==
    Cat(<<Alt([k \in 1..Len(words) |-> Lit(words[k])]), Lazy(AnyChar, 0, Unbounded),
          Grp(MonthDayYear)>>)

\* extract_timeline(text)
ExtractTimeline[text \in STRING] ==
    Take(Flat([p \in 1..Len(DatePatterns) |->
            With(FindAll(DatePattern(DatePatterns[p].words), text), LAMBDA matches :
                [k \in 1..Len(matches) |->
                    [date |-> matches[k], event |-> DatePatterns[p].event,
                     type |-> "milestone"]])]), 12)

\* pattern.sub(simple_term, s) for the escaped legal_term, ignoring case
Substitute(legal_term, simple_term, s) ==
    With(s, LAMBDA t : With(FindIter(Lit(legal_term), Lower[t]), LAMBDA found :
        Flat([k \in 1..(Len(found) + 1) |->
            SubSeq(t, IF k = 1 THEN 1 ELSE found[k - 1].to,
                      IF k > Len(found) THEN Len(t) ELSE found[k].from - 1)
            \o (IF k > Len(found) THEN "" ELSE simple_term)])))

\* The loop of simplify_legal_language from rule k on
RECURSIVE SimplifyFrom(_, _)
SimplifyFrom(result, k) ==
    IF k > Len(Simplifications) THEN result
    ELSE SimplifyFrom(Substitute(Simplifications[k][1], Simplifications[k][2], result), k + 1)

\* simplify_legal_language(text)
SimplifyLegalLanguage[text \in STRING] == SimplifyFrom(text, 1)

UpperOf == [c \in Letters |-> CHOOSE u \in UpperChars : LowerOf[u] = c]

\* str.title(): a letter after a letter is lowered, any other letter raised
Title[s \in STRING] ==
    Flat([i \in 1..Len(s) |->
        LET c == Lower[Char(s, i)]
        IN  IF c \notin Letters THEN c
            ELSE IF i > 1 /\ Lower[Char(s, i - 1)] \in Letters THEN c
            ELSE UpperOf[c]])

\* No default term: the list of the terms found is returned as it is
DefaultTermsNone == <<>>

DefaultTerms ==
    << [term |-> "Agreement", definition |-> "A mutual understanding between parties",
        context |-> "This agreement establishes terms and conditions"],
       [term |-> "Party", definition |-> "An individual or entity entering into a contract",
        context |-> "Each party has rights and obligations"],
       [term |-> "Terms", definition |-> "Conditions and provisions of a contract",
        context |-> "The terms of this contract are binding"] >>

\* extract_legal_terms_from_text(text)
ExtractLegalTermsFromText[text \in STRING] ==
    With(Lower[text], LAMBDA text_lower :
    With(Pick(LegalTermDefinitions,
              {k \in 1..Len(LegalTermDefinitions) :
                  Contains[text_lower, Lower[LegalTermDefinitions[k][1]]]}),
         LAMBDA found :
        Take(IF found = <<>> THEN DefaultTerms
             ELSE [k \in 1..Len(found) |->
                    [term       |-> Title[found[k][1]],
                     definition |-> found[k][2],
                     context    |-> ExtractContextAroundPhrase[text, found[k][1], 80]]],
             15)))

\* The tables of extract_precise_obligations
ObligationKeywordsSwapped ==
    [obligation  |-> <<"shall", "must", "will", "agrees to", "undertakes to", "commits to",
                       "responsible for", "liable for", "duty to", "obligation to",
                       "required to", "bound to", "covenant to">>,
     critical    |-> <<"payment", "deliver", "complete", "maintain", "comply", "perform",
                       "provide">>,
     payment     |-> <<"deliver", "perform", "complete", "execute", "provide", "supply">>,
     performance |-> <<"pay", "payment", "remit", "compensation", "fee", "amount", "invoice">>]

ObligationKeywords ==
    [obligation  |-> <<"shall", "must", "will", "agrees to", "undertakes to", "commits to",
                       "responsible for", "liable for", "duty to", "obligation to",
                       "required to", "bound to", "covenant to">>,
     critical    |-> <<"payment", "deliver", "complete", "maintain", "comply", "perform",
                       "provide">>,
     payment     |-> <<"pay", "payment", "remit", "compensation", "fee", "amount", "invoice">>,
     performance |-> <<"deliver", "perform", "complete", "execute", "provide", "supply">>]

NoObligations == <<"No specific obligations identified in this category">>

\* One list of extract_precise_obligations after the final loop
ObligationList(found) ==
    With(found, LAMBDA q : IF q = <<>> THEN NoObligations ELSE Take(Distinct(q), 10))

\* extract_precise_obligations(text)
ExtractPreciseObligations[text \in STRING] ==
    With(Filter(Filter(Stripped(SplitSentences[text]), LAMBDA sentence : Len(sentence) >= 20),
                LAMBDA sentence : AnyIn[Lower[sentence], ObligationKeywords.obligation]),
         LAMBDA obligations :
        LET Among(keywords) ==
                With(Filter(obligations, LAMBDA sentence : AnyIn[Lower[sentence], keywords]),
                     LAMBDA sentences :
                        [k \in 1..Len(sentences) |-> Ellipsis[sentences[k], 300]])
        IN  [all_obligations         |->
                ObligationList([k \in 1..Len(obligations) |-> Ellipsis[obligations[k], 300]]),
             critical_obligations    |-> ObligationList(Among(ObligationKeywords.critical)),
             payment_obligations     |-> ObligationList(Among(ObligationKeywords.payment)),
             performance_obligations |-> ObligationList(Among(ObligationKeywords.performance))])

\* _determine_contract_type(text): max(scores, key=scores.get) keeps the
\* first type of the greatest score
DetermineContractType[text \in STRING] ==
    With(Lower[text], LAMBDA text_lower :
    With([t \in 1..Len(ContractTypes) |-> CountIn[text_lower, ContractTypes[t].keywords]],
         LAMBDA counts :
    With(Pick([t \in 1..Len(ContractTypes) |-> t],
              {t \in 1..Len(ContractTypes) : counts[t] > 0}), LAMBDA scores :
        IF scores # <<>>
        THEN ContractTypes[scores[KeepGreater[[k \in 1..Len(scores) |-> counts[scores[k]]],
                                              1, 0]]].contract_type
        ELSE "general agreement")))

\* [^.]{10,50}
SubjectText == Grp(Rep(NotIn({"."}), 10, 50))

\* The four patterns tried from the last to the first
SubjectPatternsBackwards ==
    << Cat(<<Lit("the purpose of this agreement is"), Plus(Space), SubjectText>>),
       Cat(<<Lit("this agreement covers"), Plus(Space), SubjectText>>),
       Cat(<<Alt(<<Lit("provision of"), Lit("supply of"), Lit("delivery of"),
                   Lit("performance of")>>), Plus(Space), SubjectText>>),
       Cat(<<Alt(<<Lit("for the"), Lit("regarding the"), Lit("concerning the"),
                   Lit("related to the")>>), Plus(Space), SubjectText>>) >>

\* subject_patterns of _extract_main_subject
SubjectPatterns ==
    << Cat(<<Alt(<<Lit("for the"), Lit("regarding the"), Lit("concerning the"),
                   Lit("related to the")>>), Plus(Space), SubjectText>>),
       Cat(<<Alt(<<Lit("provision of"), Lit("supply of"), Lit("delivery of"),
                   Lit("performance of")>>), Plus(Space), SubjectText>>),
       Cat(<<Lit("this agreement covers"), Plus(Space), SubjectText>>),
       Cat(<<Lit("the purpose of this agreement is"), Plus(Space), SubjectText>>) >>

\* _extract_main_subject(text, contract_type)
ExtractMainSubject[text \in STRING, contract_type \in STRING] ==
    With([p \in 1..Len(SubjectPatterns) |-> FindAll(SubjectPatterns[p], text)],
         LAMBDA matches :
    With({p \in 1..Len(SubjectPatterns) : matches[p] # <<>>}, LAMBDA matching :
        IF matching # {}
        THEN Ellipsis[Strip[matches[Min(matching)][1]], 100]
        ELSE With({t \in 1..Len(ContractTypes) :
                      ContractTypes[t].contract_type = contract_type}, LAMBDA known :
                IF known = {} THEN "business relationship and obligations"
                ELSE ContractTypes[Min(known)].subject)))

\* generate_executive_summary(text, sections, financial_terms, risk)
GenerateExecutiveSummary(text, sections, financial_terms, risk) ==
    With(DetermineContractType[text], LAMBDA contract_type :
    With(Cardinality({s \in DOMAIN sections : sections[s] # <<>>}), LAMBDA section_count :
    With(ExtractTimeline[text], LAMBDA timeline :
        Join[<<"This is a " \o contract_type \o " focusing on "
               \o ExtractMainSubject[text, contract_type] \o ".">>
             \o (IF Len(financial_terms.amounts) > 0
                 THEN <<"The contract involves financial obligations including "
                        \o Join[Take(financial_terms.amounts, 3), ", "] \o ".">>
                 ELSE <<>>)
             \o <<"Risk analysis indicates a " \o risk.risk_level \o " risk level with "
                  \o Str[Len(risk.reasons)] \o " identified risk factors.">>
             \o (IF section_count > 0
                 THEN <<"The contract is structured into " \o Str[section_count]
                        \o " main sections covering various legal and business aspects.">>
                 ELSE <<>>)
             \o (IF timeline # <<>>
                 THEN <<"Important dates include " \o Str[Len(timeline)]
                        \o " scheduled events or milestones.">>
                 ELSE <<>>),
             " "])))

\* The calls process_contract makes, in their order
Steps ==
    << "identify_contract_sections", "extract_key_entities", "extract_financial_terms",
       "extract_timeline", "assess_contract_risks", "simplify_legal_language",
       "extract_legal_terms_from_text", "extract_precise_obligations",
       "_determine_contract_type", "_extract_main_subject", "generate_executive_summary" >>

\* What a run of process_contract meets: no failure, or an exception
\* raised in one of the calls
Faults == {"none"} \cup {Steps[k] : k \in 1..Len(Steps)}

\* The dictionary process_contract builds when nothing raises
Analysis(text, seed) ==
    With(IdentifyContractSections[text], LAMBDA sections :
    With(ExtractFinancialTerms[text], LAMBDA financial_terms :
    With(AssessContractRisks[text], LAMBDA risk :
    With(ExtractPreciseObligations[text], LAMBDA obligations :
    With(DetermineContractType[text], LAMBDA contract_type :
    With(ExtractMainSubject[text, contract_type], LAMBDA main_subject :
        [processing_status |-> "success",
         detailed_summary  |->
            [executive_summary |->
                GenerateExecutiveSummary(text, sections, financial_terms, risk),
             key_points        |->
                << "Contract type: " \o contract_type,
                   "Main subject: " \o main_subject,
                   "Risk level: " \o risk.risk_level,
                   "Total obligations: " \o Str[Len(obligations.all_obligations)],
                   "Financial terms: " \o Str[Len(financial_terms.amounts)]
                   \o " amounts identified" >>,
             financial_terms   |-> financial_terms,
             timeline          |-> ExtractTimeline[text],
             contract_type     |-> contract_type,
             main_subject      |-> main_subject],
         key_terms         |-> ExtractLegalTermsFromText[text],
         obligations       |-> obligations,
         risk_assessment   |-> risk,
         sections          |-> sections,
         entities          |-> ExtractKeyEntities[text, seed],
         simplified_text   |-> SimplifyLegalLanguage[text]]))))))

\* The documents of the workloads
Doc100 ==
    "The tenant shall pay the rent on the first day of each month and may end the lease on written notice"

\* A few words, and white space after them
PaddedDoc == "Short text." \o Repeat(" ", 95)

TwoAmounts ==
    "The buyer shall pay $100 on signing and $250 on delivery of the goods to the premises of the buyer in Pune"

\* What upload_file reads from the PDF and the DOCX of the workload
PdfDoc == "--- Page 2 ---\n" \o SubSeq(Doc100, 1, 85)

DocxDoc ==
    "The buyer shall pay $100 on signing\n\nand $250 on delivery of the goods to the premises of the buyer in Pune"

ServiceAgreement ==
    "SERVICE AGREEMENT\n\nThis Agreement is effective as of January 5, 2025 for the provision of consulting services to the Client.\n\nThe Client shall pay a fee of $1,500.00 within 30 days after the invoice. Late amounts bear 5% interest per annum.\n\nEither party may terminate this Agreement upon material breach. The Provider shall indemnify the Client, without limitation."

Documents == {Doc100, PaddedDoc, TwoAmounts, PdfDoc, DocxDoc, ServiceAgreement}

\* PYTHONHASHSEED is random per process: set(...) of strings iterates in an
\* order that depends on it.  A seed is read as the index of an order; with
\* at most two distinct matches of a pattern in a document of the workloads,
\* two seeds give every order
Seeds == {0, 1}

\* Analysis on the documents of the workloads, computed once; the seed
\* reaches the entities only
Analyses ==
    [text \in Documents |->
        With(Analysis(text, 0), LAMBDA first :
            [seed \in Seeds |->
                [first EXCEPT !.entities = ExtractKeyEntities[text, seed]]])]

\* The dictionary process_contract returns when nothing raises
Response(text, seed) ==
    IF text \in Documents /\ seed \in Seeds THEN Analyses[text][seed]
    ELSE Analysis(text, seed)

\* except Exception as e: the dictionary returned instead
Failed(fault) ==
    [processing_status |-> "failed", error |-> "Contract processing failed: " \o fault]

\* The except clause left out: the exception leaves process_contract
ProcessContractUncaught(text, seed, fault) ==
    IF fault = "none" THEN Response(text, seed) ELSE [raised |-> fault]

\* process_contract(text) in a process with the given hash seed
ProcessContract(text, seed, fault) ==
    IF fault = "none" THEN Response(text, seed) ELSE Failed(fault)

(***************************************************************************)
(* The server: app.py's handlers on one event loop, and the process-wide   *)
(* singleton of legal_processor.py.                                        *)
(***************************************************************************)

VARIABLES
    processor,  \* legal_processor.processor: NoProcessor or the instance
    hashseed,   \* the interpreter's string hash seed, drawn when it starts
    restarts,   \* how often the server process was started again
    served,     \* how many requests the server has accepted
    loop,       \* the request whose handler holds the event loop, or Nobody
    req,        \* per connection: the request, where its handler is, the response
    call        \* a direct call of one method of the processor, and what it returned

vars == <<processor, hashseed, restarts, served, loop, req, call>>

Clients == {"a", "b"}

Nobody == "-"

MaxRequests == 3

MaxRestarts == 1

NoProcessor == [made |-> FALSE, gemini_model |-> "None"]

\* What a request carries.  Of an uploaded file: its name, the number of its
\* bytes, whether the PDF or DOCX library can open it, and its parts (the
\* text of each page of a PDF, of each paragraph of a DOCX, or the decoded
\* content of anything else)
NoArg == [text |-> "", question |-> "", context |-> "", filename |-> "", size |-> 0,
          readable |-> TRUE, parts |-> <<>>]

NoBody == [detail |-> ""]

NoReply == [kind |-> "none", text |-> ""]

NoCalls == [process_contract |-> 0, generate_content |-> 0, ask_keyword_question |-> 0]

NoCall == [method |-> "none", text |-> "", fault |-> "none", pc |-> "none", ret |-> <<>>]

IdleReq ==
    [kind |-> "none", arg |-> NoArg, pc |-> "idle", status |-> 0, body |-> NoBody,
     gemini |-> "unread", reply |-> NoReply, calls |-> NoCalls]

\* What __init__ meets: the model files load (or not), GEMINI_API_KEY is set
\* (or not), google.generativeai imported (or not), genai.configure and
\* GenerativeModel succeed (or not)
Environments ==
    [loads : BOOLEAN, api_key : BOOLEAN, gemini_available : BOOLEAN, configures : BOOLEAN]

\* The constructor runs, and meets its environment, only while the singleton
\* is unset
EnvironmentsMet(current) ==
    IF current.made THEN {[loads |-> TRUE, api_key |-> TRUE, gemini_available |-> TRUE,
                           configures |-> TRUE]}
    ELSE Environments

\* LegalDocumentProcessor.__init__: the instance, when it does not raise
Construct(env) ==
    [made |-> TRUE,
     gemini_model |->
        IF ~env.api_key THEN "None"
        ELSE IF env.gemini_available
             THEN IF env.configures THEN "GenerativeModel" ELSE "None"
             ELSE "None"]

\* A get_processor that constructs on every call
GetProcessorEveryCall(current, env) == IF env.loads THEN Construct(env) ELSE NoProcessor

\* get_processor(): the singleton after the call; made = FALSE when the
\* constructor raised, and the global is then left unset
GetProcessor(current, env) ==
    IF ~current.made
    THEN IF env.loads THEN Construct(env) ELSE NoProcessor
    ELSE current

\* if not self.gemini_model
ClientAbsentIgnored(gemini_model) == FALSE

ClientAbsent(gemini_model) == gemini_model = "None"

MaxQuestionLen == 500

\* ask_question's checks before the try block: the detail of the 400
\* response, or "" when the request passes
AskRejection(arg) ==
    IF Strip[arg.question] = "" THEN "Question cannot be empty"
    ELSE IF Strip[arg.context] = "" THEN "Contract context is required"
    ELSE IF Len(arg.question) > MaxQuestionLen
         THEN "Question too long. Maximum 500 characters"
    ELSE ""

Respond(r, status, body) == [r EXCEPT !.pc = "done", !.status = status, !.body = body]

\* A client sends a request; the server has not started its handler
Arrive(c, kind, arg) ==
    /\ req[c].pc = "idle"
    /\ served < MaxRequests
    /\ served' = served + 1
    /\ req' = [req EXCEPT ![c] = [IdleReq EXCEPT !.kind = kind, !.arg = arg, !.pc = "pending"]]
    /\ UNCHANGED <<processor, hashseed, restarts, loop, call>>

\* The client takes the response; the connection is free again
Collect(c) ==
    /\ req[c].pc = "done"
    /\ req' = [req EXCEPT ![c] = IdleReq]
    /\ UNCHANGED <<processor, hashseed, restarts, served, loop, call>>

\* ask_question up to the call of generate_content (or, with no client, to
\* the keyword engine): the checks, get_processor, and the test of
\* self.gemini_model in ask_openai_question
AskBegin(c) ==
    /\ loop = Nobody
    /\ req[c].pc = "pending"
    /\ req[c].kind = "ask_question"
    /\ LET r == req[c]
           why == AskRejection(r.arg)
       IN  IF why # ""
           THEN /\ req' = [req EXCEPT ![c] = Respond(r, 400, [detail |-> why])]
                /\ UNCHANGED <<processor, loop>>
           ELSE \E env \in EnvironmentsMet(processor) :
                LET p == GetProcessor(processor, env)
                IN  /\ processor' = p
                    /\ IF ~p.made
                       THEN /\ req' = [req EXCEPT ![c] =
                                  Respond(r, 500, [detail |-> "Question processing failed: Error loading model"])]
                            /\ UNCHANGED loop
                       ELSE /\ loop' = c
                            /\ IF ClientAbsent(p.gemini_model)
                               THEN req' = [req EXCEPT ![c].pc = "KEYWORD_FALLBACK",
                                                       ![c].gemini = p.gemini_model]
                               ELSE req' = [req EXCEPT ![c].pc = "LLM_ATTEMPT",
                                                       ![c].gemini = p.gemini_model,
                                                       ![c].calls.generate_content = @ + 1]
    /\ UNCHANGED <<hashseed, restarts, served, call>>

\* generate_content returned and response.text is readable: lines 659-666
LLMReturn(c, text) ==
    /\ loop = c
    /\ req[c].pc = "LLM_ATTEMPT"
    /\ LET r == req[c]
           answer_data == LLMAnswer(text, r.arg.question, r.arg.context)
       IN  req' = [req EXCEPT ![c] =
                      [Respond(r, 200, answer_data) EXCEPT !.reply = [kind |-> "text", text |-> text]]]
    /\ loop' = Nobody
    /\ UNCHANGED <<processor, hashseed, restarts, served, call>>

\* The except branch of ask_openai_question, lines 668-670: the error is
\* logged and the keyword engine is called next
OnLLMErrorRetries(r) ==
    [r EXCEPT !.pc = "LLM_ATTEMPT", !.reply = [kind |-> "error", text |-> ""],
              !.calls.generate_content = @ + 1]

OnLLMErrorPropagates(r) ==
    [Respond(r, 500, [detail |-> "Question processing failed: Gemini API error"])
        EXCEPT !.reply = [kind |-> "error", text |-> ""]]

OnLLMError(r) ==
    [r EXCEPT !.pc = "KEYWORD_FALLBACK", !.reply = [kind |-> "error", text |-> ""]]

\* generate_content or response.text raised (network, API, a response with
\* no text)
LLMRaise(c) ==
    /\ loop = c
    /\ req[c].pc = "LLM_ATTEMPT"
    /\ req' = [req EXCEPT ![c] = OnLLMError(req[c])]
    /\ UNCHANGED <<processor, hashseed, restarts, served, loop, call>>

\* ask_keyword_question and the handler's return
KeywordFallback(c) ==
    /\ loop = c
    /\ req[c].pc = "KEYWORD_FALLBACK"
    /\ LET r == req[c]
           answer_data == AskKeywordQuestion(r.arg.question, r.arg.context)
       IN  req' = [req EXCEPT ![c] =
                      [Respond(r, 200, answer_data) EXCEPT !.calls.ask_keyword_question = @ + 1]]
    /\ loop' = Nobody
    /\ UNCHANGED <<processor, hashseed, restarts, served, call>>

MinTextLen == 100

\* analyze_contract_text's checks before the try block: the detail of the
\* 400 response, or "" when the request passes
AnalyzeRejectionAnyLength(arg) ==
    IF Strip[arg.text] = "" THEN "Contract text cannot be empty" ELSE ""

AnalyzeRejection(arg) ==
    IF Strip[arg.text] = "" THEN "Contract text cannot be empty"
    ELSE IF Len(arg.text) < MinTextLen
         THEN "Contract text too short for meaningful analysis"
    ELSE ""

\* The handler from get_processor() on, the same in analyze_contract_text
\* and upload_file, where process_contract meets one of the given faults: process_contract's dictionary is the response when its
\* status is "success", a 500 carries its error otherwise, and so does
\* except Exception with the handler's own prefix
Process(c, text, prefix, faults) ==
    \E p \in {GetProcessor(processor, env) : env \in EnvironmentsMet(processor)},
       fault \in faults :
        /\ processor' = p
        /\ IF ~p.made
           THEN req' = [req EXCEPT ![c] =
                           Respond(req[c], 500, [detail |-> prefix \o "Error loading model"])]
           ELSE LET r == [req[c] EXCEPT !.calls.process_contract = @ + 1]
                    result == ProcessContract(text, hashseed, fault)
                IN  IF "raised" \in DOMAIN result
                    THEN req' = [req EXCEPT ![c] =
                                    Respond(r, 500, [detail |-> prefix \o result.raised])]
                    ELSE IF result.processing_status # "success"
                    THEN req' = [req EXCEPT ![c] =
                                    Respond(r, 500, [detail |-> result.error])]
                    ELSE req' = [req EXCEPT ![c] = Respond(r, 200, result)]

\* analyze_contract_text: it has no await, and runs from its first line to
\* its response while it holds the event loop
AnalyzeText(c, faults) ==
    /\ loop = Nobody
    /\ req[c].pc = "pending"
    /\ req[c].kind = "analyze_text"
    /\ LET why == AnalyzeRejection(req[c].arg)
       IN  IF why # ""
           THEN /\ req' = [req EXCEPT ![c] = Respond(req[c], 400, [detail |-> why])]
                /\ UNCHANGED processor
           ELSE Process(c, req[c].arg.text, "Analysis failed: ", faults)
    /\ UNCHANGED <<hashseed, restarts, served, loop, call>>

MaxFileSize == 10 * 1024 * 1024

SupportedTypes == {"pdf", "docx", "txt"}

\* file.filename.rsplit(".", 1)[-1].lower() if "." in file.filename else ""
Ext(filename) ==
    IF Contains[filename, "."]
    THEN With(SplitChar[filename, "."], LAMBDA pieces : Lower[pieces[Len(pieces)]])
    ELSE ""

\* The loop of extract_text_from_pdf over the pages
PdfText[pages \in Seq(STRING)] ==
    IF pages = <<>> THEN ""
    ELSE PdfText[SubSeq(pages, 1, Len(pages) - 1)]
         \o (IF pages[Len(pages)] = "" THEN ""
             ELSE "\n--- Page " \o Str[Len(pages)] \o " ---\n" \o pages[Len(pages)] \o "\n")

\* extract_text_from_pdf, extract_text_from_docx and content.decode
ExtractText(ext, parts) ==
    IF ext = "pdf" THEN Strip[PdfText[parts]]
    ELSE IF ext = "docx"
         THEN Join[Filter(Stripped(parts), LAMBDA paragraph : paragraph # ""), "\n\n"]
    ELSE Join[parts, ""]

\* upload_file up to get_processor(): the detail of the 400 response, or ""
\* with the text to analyse
UploadChecks(arg) ==
    LET Reject(why) == [detail |-> why, text |-> ""]
        ext == Ext(arg.filename)
        text == ExtractText(ext, arg.parts)
    IN  IF arg.filename = "" THEN Reject("No file uploaded")
        ELSE IF arg.size > MaxFileSize THEN Reject("File too large. Maximum size is 10MB")
        ELSE IF arg.size = 0 THEN Reject("Empty file uploaded")
        ELSE IF ext \notin SupportedTypes
             THEN Reject("Unsupported file type '" \o ext
                         \o "'. Supported types: PDF, DOCX, TXT")
        ELSE IF ext = "pdf" /\ ~arg.readable THEN Reject("Error reading PDF: unreadable")
        ELSE IF ext = "docx" /\ ~arg.readable THEN Reject("Error reading DOCX: unreadable")
        ELSE IF Strip[text] = "" THEN Reject("No text could be extracted from the file")
        ELSE IF Len(Strip[text]) < MinTextLen
             THEN Reject("Extracted text too short for analysis")
        ELSE [detail |-> "", text |-> text]

\* upload_file.  The UploadFile it awaits is already in the server's
\* memory or spool: the read touches nothing the other handlers use
UploadFile(c, faults) ==
    /\ loop = Nobody
    /\ req[c].pc = "pending"
    /\ req[c].kind = "upload_file"
    /\ LET checked == UploadChecks(req[c].arg)
       IN  IF checked.detail # ""
           THEN /\ req' = [req EXCEPT ![c] = Respond(req[c], 400, [detail |-> checked.detail])]
                /\ UNCHANGED processor
           ELSE Process(c, checked.text, "File processing failed: ", faults)
    /\ UNCHANGED <<hashseed, restarts, served, loop, call>>

\* The server process starts again (uvicorn.run, reload=True): the module
\* global is unset and the interpreter draws a new hash seed
Restart ==
    /\ loop = Nobody
    /\ restarts < MaxRestarts
    /\ restarts' = restarts + 1
    /\ processor' = NoProcessor
    /\ hashseed' \in Seeds
    /\ UNCHANGED <<served, loop, req, call>>

\* A process that has just started: no processor yet, no request
Started ==
    /\ processor = NoProcessor
    /\ hashseed \in Seeds
    /\ restarts = 0
    /\ served = 0
    /\ loop = Nobody
    /\ req = [c \in Clients |-> IdleReq]

Init == Started /\ call = NoCall

\* A method of the processor called directly, outside a request
Called(method, text, fault) ==
    [method |-> method, text |-> text, fault |-> fault, pc |-> "called", ret |-> <<>>]

Returns(method, value) ==
    /\ call.pc = "called"
    /\ call.method = method
    /\ call' = [call EXCEPT !.pc = "returned", !.ret = value]
    /\ UNCHANGED <<processor, hashseed, restarts, served, loop, req>>

Returned(method) == call.method = method /\ call.pc = "returned"

(***************************************************************************)
(* Question answering workload                                             *)
(***************************************************************************)

PaymentContext ==
    "This agreement starts now.\nThe fee is $500 due monthly.\nEither party may terminate the contract with thirty days of written notice to the other party. The supplier of the goods shall deliver the goods in good order"

AskArg(question, context) == [NoArg EXCEPT !.question = question, !.context = context]

AskInputs ==
    { AskArg("What is the payment schedule?", PaymentContext),
      AskArg("Who is the supplier of the goods?", PaymentContext),
      AskArg("What are the key payment obligations?", PaymentContext),
      AskArg("  ", PaymentContext),
      AskArg("What is the payment schedule?", " \n"),
      AskArg(Repeat("what ", 100), PaymentContext),
      AskArg(Repeat("what ", 100) \o "?", PaymentContext) }

\* What response.text can hold
LLMTexts == {"The fee is $500, due every month.", "  Monthly.\n"}

NextAsk(inputs, texts) ==
    \/ \E c \in Clients, arg \in inputs : Arrive(c, "ask_question", arg)
    \/ \E c \in Clients : AskBegin(c)
    \/ \E c \in Clients, text \in texts : LLMReturn(c, text)
    \/ \E c \in Clients : LLMRaise(c)
    \/ \E c \in Clients : KeywordFallback(c)
    \/ \E c \in Clients : Collect(c)

NextQA == NextAsk(AskInputs, LLMTexts)

\* The hash seed plays no part in answering questions
InitQA == Init /\ hashseed = 0

SpecQA == InitQA /\ [][NextQA]_vars

\* A lighter workload for the checks of progress
ShortAskInputs ==
    { AskArg("Who pays the fee now?", "The buyer pays the fee now.\nThe seller ships."),
      AskArg("Who ships and when?", "The buyer pays the fee now.\nThe seller ships."),
      AskArg("", "The seller ships.") }

ShortLLMTexts == {" The buyer. "}

\* The model call returns or raises, and a started handler runs on
FairQA ==
    \A c \in Clients :
        /\ WF_vars((\E text \in ShortLLMTexts : LLMReturn(c, text)) \/ LLMRaise(c))
        /\ WF_vars(KeywordFallback(c))

LiveQA == InitQA /\ [][NextAsk(ShortAskInputs, ShortLLMTexts)]_vars /\ FairQA

Asked(r) == r.kind = "ask_question"

Answered(r) == Asked(r) /\ r.pc = "done" /\ r.status = 200

QAResultKeys == {"answer", "relevant_clauses", "confidence", "follow_up_suggestions"}

\* C1: with no LLM client (gemini_model is None) the engine goes straight to
\* KEYWORD_FALLBACK: generate_content is never called for the question and
\* the response is the keyword engine's result for the same question and
\* context.
C1_NoClientGoesToKeywords ==
    \A c \in Clients :
        LET r == req[c]
        IN  (Asked(r) /\ r.gemini = "None") =>
               /\ r.calls.generate_content = 0
               /\ r.reply.kind = "none"
               /\ r.pc \in {"KEYWORD_FALLBACK", "done"}
               /\ r.pc = "done" =>
                     /\ r.status = 200
                     /\ r.calls.ask_keyword_question = 1
                     /\ r.body = AskKeywordQuestion(r.arg.question, r.arg.context)

C1_Witness ==
    \E c \in Clients :
        /\ Answered(req[c])
        /\ req[c].gemini = "None"
        /\ req[c].body.answer =
              "Based on the contract, here are the payment-related terms:\n\nThe fee is $500 due monthly."

\* C2: when the client is configured and the LLM attempt raises, the
\* request moves to KEYWORD_FALLBACK and ends with a QAResult (status 200,
\* the keyword engine's result); the error never reaches the caller as a
\* failed request.
C2_LLMErrorFallsBack ==
    \A c \in Clients :
        LET r == req[c]
        IN  (Asked(r) /\ r.reply.kind = "error") =>
               /\ r.gemini = "GenerativeModel"
               /\ r.pc \in {"KEYWORD_FALLBACK", "done"}
               /\ r.pc = "done" =>
                     /\ r.status = 200
                     /\ DOMAIN r.body = QAResultKeys
                     /\ r.body = AskKeywordQuestion(r.arg.question, r.arg.context)

C2_Witness ==
    \E c \in Clients :
        /\ Answered(req[c])
        /\ req[c].reply.kind = "error"
        /\ req[c].calls.generate_content = 1

QAStep(from, to) ==
    \/ to = from
    \/ from = "idle" /\ to = "pending"
    \/ from = "pending" /\ to \in {"LLM_ATTEMPT", "KEYWORD_FALLBACK", "done"}
    \/ from = "LLM_ATTEMPT" /\ to \in {"KEYWORD_FALLBACK", "done"}
    \/ from = "KEYWORD_FALLBACK" /\ to = "done"
    \/ from = "done" /\ to = "idle"

\* C3: a question follows LLM_ATTEMPT -> DONE or [LLM_ATTEMPT ->]
\* KEYWORD_FALLBACK -> DONE only: generate_content is called at most once
\* and the keyword engine at most once per question, nothing leads from
\* KEYWORD_FALLBACK back to LLM_ATTEMPT, and a question in the engine
\* reaches DONE when the model call returns or raises.
C3_QAPaths ==
    /\ [](\A c \in Clients :
             /\ req[c].calls.generate_content <= 1
             /\ req[c].calls.ask_keyword_question <= 1
             /\ req[c].pc = "LLM_ATTEMPT" => req[c].calls.generate_content = 1
             /\ Answered(req[c]) =>
                   req[c].calls.generate_content + req[c].calls.ask_keyword_question >= 1)
    /\ [][\A c \in Clients : QAStep(req[c].pc, req'[c].pc)]_vars
    /\ \A c \in Clients :
          (req[c].pc \in {"LLM_ATTEMPT", "KEYWORD_FALLBACK"}) ~> (req[c].pc = "done")

C3_Witness ==
    \E c \in Clients :
        /\ Answered(req[c])
        /\ req[c].calls.generate_content = 1
        /\ req[c].calls.ask_keyword_question = 1

\* C4 as stated: confidence is 0.9 exactly when the LLM call succeeded, the
\* answer then being the literal model output and the follow-ups generated
\* from the question; otherwise confidence is 0.7 and the follow-ups are
\* the canned list; confidence lies in [0,1].
C4_LiteralOutput ==
    \A c \in Clients :
        LET r == req[c]
        IN  Answered(r) =>
               /\ r.body.confidence \in 0..10
               /\ r.body.confidence = 9 <=> r.reply.kind = "text"
               /\ r.reply.kind = "text" =>
                     /\ r.body.answer = r.reply.text
                     /\ r.body.follow_up_suggestions =
                           GenerateFollowUpQuestions[r.arg.question]
               /\ r.reply.kind # "text" =>
                     /\ r.body.confidence = 7
                     /\ r.body.follow_up_suggestions = CannedFollowUps

\* C4, amended: as C4, the answer being the model output with the white
\* space at its two ends stripped.
C4_StrippedOutput ==
    \A c \in Clients :
        LET r == req[c]
        IN  Answered(r) =>
               /\ r.body.confidence \in 0..10
               /\ r.body.confidence = 9 <=> r.reply.kind = "text"
               /\ r.reply.kind = "text" =>
                     /\ r.body.answer = Strip[r.reply.text]
                     /\ r.body.follow_up_suggestions =
                           GenerateFollowUpQuestions[r.arg.question]
               /\ r.reply.kind # "text" =>
                     /\ r.body.confidence = 7
                     /\ r.body.follow_up_suggestions = CannedFollowUps

C4_Witness ==
    \E c, d \in Clients :
        /\ Answered(req[c]) /\ req[c].reply.text = "  Monthly.\n"
        /\ req[c].body.answer = "Monthly."
        /\ req[c].body.follow_up_suggestions # CannedFollowUps
        /\ Answered(req[d]) /\ req[d].body.confidence = 7

(***************************************************************************)
(* The whole server: requests of the three kinds from each client          *)
(***************************************************************************)

\* One character short of MinTextLen
Doc99 == SubSeq(Doc100, 1, MinTextLen - 1)

AnalyzeArg(text) == [NoArg EXCEPT !.text = text]

File(filename, size, readable, parts) ==
    [NoArg EXCEPT !.filename = filename, !.size = size, !.readable = readable,
                  !.parts = parts]

\* A text file whose bytes are the characters of the text
TextFile(filename, text) == File(filename, Len(text), TRUE, <<text>>)

PdfFile == File("scan.pdf", 2048, TRUE, <<"", SubSeq(Doc100, 1, 85)>>)

DocxFile ==
    File("sale.docx", 4096, TRUE,
         <<" The buyer shall pay $100 on signing ", " ",
           "and $250 on delivery of the goods to the premises of the buyer in Pune">>)

AnalyzeInputs == {AnalyzeArg(text) : text \in {"", " \n ", Doc99, Doc100, PaddedDoc}}

UploadInputs ==
    { TextFile("lease.TXT", Doc100),
      TextFile("lease.txt", Doc99),
      TextFile("short.txt", PaddedDoc),
      TextFile("", Doc100),
      TextFile("lease.txt.exe", Doc100),
      File("empty.txt", 0, TRUE, <<"">>),
      File("huge.txt", MaxFileSize + 1, TRUE, <<Doc100>>),
      PdfFile,
      File("scan.pdf", 2048, TRUE, <<SubSeq(Doc100, 1, 84)>>),
      File("torn.docx", 4096, FALSE, <<>>) }

Question500 == Repeat("what ", 100)

ServerAskInputs ==
    { AskArg("Who pays the fee now?", "The buyer pays the fee now.\nThe seller ships."),
      AskArg(" ", "The seller ships."),
      AskArg("Who ships?", "\n"),
      AskArg(Question500, "The seller ships."),
      AskArg(Question500 \o "?", "The seller ships.") }

\* In the runs of the server an exception in process_contract, if there is
\* one, comes from its first call
SomeFaults == {"none", Steps[1]}

NextAnalyze(texts, files) ==
    \/ \E c \in Clients, arg \in texts : Arrive(c, "analyze_text", arg)
    \/ \E c \in Clients, arg \in files : Arrive(c, "upload_file", arg)
    \/ \E c \in Clients : AnalyzeText(c, SomeFaults)
    \/ \E c \in Clients : UploadFile(c, SomeFaults)

NextServer ==
    \/ NextAnalyze(AnalyzeInputs, UploadInputs)
    \/ NextAsk(ServerAskInputs, ShortLLMTexts)

SpecServer == InitQA /\ [][NextServer]_vars

\* C5: the LLM call does not block other requests: while one request waits
\* in LLM_ATTEMPT, the handler of another request the server has received,
\* an analysis or a question, can start.
C5_LLMCallDoesNotBlock ==
    \A c, d \in Clients :
        (c # d /\ req[c].pc = "LLM_ATTEMPT" /\ req[d].pc = "pending") =>
            ENABLED (AskBegin(d) \/ AnalyzeText(d, SomeFaults) \/ UploadFile(d, SomeFaults))

(***************************************************************************)
(* process_contract called on each document, meeting each fault            *)
(***************************************************************************)

ProcessContractCall ==
    Returns("process_contract", ProcessContract(call.text, hashseed, call.fault))

InitProcess ==
    /\ Started
    /\ call \in {Called("process_contract", text, fault) : text \in Documents, fault \in Faults}

SpecProcess == InitProcess /\ [][ProcessContractCall]_vars

ResponseKeys ==
    {"processing_status", "detailed_summary", "key_terms", "obligations",
     "risk_assessment", "sections", "entities", "simplified_text"}

SummaryKeys ==
    {"executive_summary", "key_points", "financial_terms", "timeline", "contract_type",
     "main_subject"}

\* C6: on a text of at least 100 characters process_contract does not
\* raise: it returns a dictionary whose processing_status is "success" and
\* which has every field of the response and of its detailed_summary, or,
\* when a step failed, one whose processing_status is "failed" with an
\* error string.
C6_ProcessContractNeverRaises ==
    (Returned("process_contract") /\ Len(call.text) >= MinTextLen) =>
        LET ret == call.ret
        IN  /\ "raised" \notin DOMAIN ret
            /\ "processing_status" \in DOMAIN ret
            /\ IF call.fault = "none"
               THEN /\ ret.processing_status = "success"
                    /\ DOMAIN ret = ResponseKeys
                    /\ DOMAIN ret.detailed_summary = SummaryKeys
               ELSE /\ ret.processing_status = "failed"
                    /\ DOMAIN ret = {"processing_status", "error"}
                    /\ ret.error \in STRING
                    /\ ret.error # ""

C6_Witness ==
    /\ Returned("process_contract")
    /\ Len(call.text) = MinTextLen
    /\ call.fault = "extract_timeline"
    /\ call.ret.processing_status = "failed"
    /\ call.ret.error = "Contract processing failed: extract_timeline"

(***************************************************************************)
(* Rejection of requests                                                   *)
(***************************************************************************)

\* The text upload_file has in hand once the file is read
UploadedText(arg) == ExtractText(Ext(arg.filename), arg.parts)

\* C7: input errors are rejected before processing: an analyze-text or
\* upload-file request whose text is empty or shorter than 100 characters
\* gets a 400 and process_contract is not called for it; an ask-question
\* request with an empty question, an empty context or a question of more
\* than 500 characters gets a 400, and neither the processor is fetched
\* nor generate_content nor the keyword engine called for it.
C7_RejectedBeforeProcessing ==
    \A c \in Clients :
        LET r == req[c]
            text == IF r.kind = "analyze_text" THEN r.arg.text ELSE UploadedText(r.arg)
        IN  /\ (r.kind \in {"analyze_text", "upload_file"}
                    /\ (Strip[text] = "" \/ Len(text) < 100)) =>
                   /\ r.pc \in {"pending", "done"}
                   /\ r.pc = "done" => r.status = 400
                   /\ r.calls.process_contract = 0
            /\ (r.kind = "ask_question"
                    /\ (Strip[r.arg.question] = "" \/ Strip[r.arg.context] = ""
                        \/ Len(r.arg.question) > 500)) =>
                   /\ r.pc \in {"pending", "done"}
                   /\ r.pc = "done" => r.status = 400
                   /\ r.gemini = "unread"
                   /\ r.calls.generate_content = 0
                   /\ r.calls.ask_keyword_question = 0

C7_Witness ==
    \E c, d \in Clients :
        /\ req[c].kind = "analyze_text" /\ Len(req[c].arg.text) = 99
        /\ req[c].pc = "done" /\ req[c].status = 400
        /\ req[c].body.detail = "Contract text too short for meaningful analysis"
        /\ req[d].kind = "ask_question" /\ Len(req[d].arg.question) = 501
        /\ req[d].pc = "done" /\ req[d].status = 400

(***************************************************************************)
(* The same document analysed twice, in one process or in two              *)
(***************************************************************************)

NextTwice ==
    \/ NextAnalyze({AnalyzeArg(TwoAmounts), AnalyzeArg(Doc100)},
                   {DocxFile, TextFile("sale.txt", TwoAmounts)})
    \/ \E c \in Clients : Collect(c)
    \/ Restart

SpecTwice == Init /\ [][NextTwice]_vars

Analyzed(r) ==
    r.kind \in {"analyze_text", "upload_file"} /\ r.pc = "done" /\ r.status = 200

\* C8: two runs of process_contract on the same text, in the same process
\* or in two, give the same result, the order of every list included.
C8_SameTextSameResult ==
    \A c, d \in Clients :
        LET TextOf(r) == IF r.kind = "analyze_text" THEN r.arg.text ELSE UploadedText(r.arg)
        IN  (Analyzed(req[c]) /\ Analyzed(req[d]) /\ TextOf(req[c]) = TextOf(req[d])) =>
                req[c].body = req[d].body

(***************************************************************************)
(* identify_contract_sections called on texts of one or two chunks         *)
(***************************************************************************)

PaymentChunk == "Payment of the fee is due on the first of each month"

\* Stretches of text: about payment, about termination, about neither, as
\* much about the one as the other, of exactly 50 characters, as much
\* confidential as intellectual property, more about termination than
\* about payment, and brief
Chunks ==
    { PaymentChunk,
      "Either party may terminate on a breach of the lease",
      "The parties agree to meet every year in the spring.",
      "The fee is due, and a breach ends this agreement now",
      "The parties agree to meet once a year in that city",
      "All proprietary data and each trade secret stay ours",
      "The fee ends on termination or breach of the lease.",
      "This clause is brief." }

\* What can stand between two chunks: an empty line, a line of white space,
\* a line break
Breaks == {"\n\n", "\n \n", "\n"}

SectionTexts == Chunks \cup {a \o break \o b : a \in Chunks, b \in Chunks, break \in Breaks}

IdentifyContractSectionsCall ==
    Returns("identify_contract_sections", IdentifyContractSections[call.text])

InitSections ==
    /\ Started
    /\ hashseed = 0
    /\ call \in {Called("identify_contract_sections", text, "none") : text \in SectionTexts}

SpecSections == InitSections /\ [][IdentifyContractSectionsCall]_vars

Occurrences(x, seq) == Cardinality({k \in 1..Len(seq) : seq[k] = x})

Buckets ==
    {"payment_terms", "termination_clauses", "liability_limitations",
     "warranty_disclaimers", "confidentiality", "intellectual_property",
     "dispute_resolution", "general_terms"}

\* C9: identify_contract_sections returns all eight buckets, and every
\* paragraph of the split (the chunks between blank lines longer than 50,
\* or, when there is none, the sentences longer than 100) is in exactly one
\* bucket, as often as it occurs among the paragraphs; the buckets hold
\* nothing else.
C9_EveryParagraphInOneBucket ==
    Returned("identify_contract_sections") =>
        LET sections == call.ret
            paragraphs == Paragraphs[call.text]
        IN  /\ DOMAIN sections = Buckets
            /\ \A k \in 1..Len(paragraphs) :
                  \E bucket \in Buckets :
                      /\ Occurrences(paragraphs[k], sections[bucket])
                            = Occurrences(paragraphs[k], paragraphs)
                      /\ \A other \in Buckets \ {bucket} :
                            Occurrences(paragraphs[k], sections[other]) = 0
            /\ \A bucket \in Buckets : \A k \in 1..Len(sections[bucket]) :
                  Occurrences(sections[bucket][k], paragraphs) > 0

C9_Witness ==
    /\ Returned("identify_contract_sections")
    /\ call.text = PaymentChunk \o "\n\n" \o PaymentChunk
    /\ call.ret.payment_terms = <<PaymentChunk, PaymentChunk>>
    /\ call.ret.general_terms = <<>>

(***************************************************************************)
(* assess_contract_risks called on texts made of scored sentences          *)
(***************************************************************************)

RiskSentences ==
    << "The supplier accepts criminal liability.",
       "The supplier accepts unlimited liability.",
       "The supplier shall indemnify the buyer.",
       "The buyer may claim without limitation.",
       "A penalty for delay, a penalty for defects and penalties for fraud apply.",
       "Either side may leave at will.",
       "The duties are mutual.",
       "Both sides act in good faith." >>

\* The phrases of the three tiers, in the order of the table
IndicatorPhrases == [k \in 1..Len(RiskIndicators) |-> RiskIndicators[k].indicator]

\* Any of the scored sentences; a phrase of the table and nothing else; the
\* first phrases of the table, one after the other
RiskTexts ==
    {Join[Pick(RiskSentences, chosen), " "] : chosen \in SUBSET (1..Len(RiskSentences))}
    \cup {IndicatorPhrases[k] : k \in 1..Len(IndicatorPhrases)}
    \cup {Join[SubSeq(IndicatorPhrases, 1, n), "; "] : n \in 1..Len(IndicatorPhrases)}

AssessContractRisksCall ==
    Returns("assess_contract_risks", AssessContractRisks[call.text])

InitRisks ==
    /\ Started
    /\ hashseed = 0
    /\ call \in {Called("assess_contract_risks", text, "none") : text \in RiskTexts}

SpecRisks == InitRisks /\ [][AssessContractRisksCall]_vars

\* C10: assess_contract_risks decides the level on the raw score (8 and
\* more HIGH, 4 to 7 MEDIUM, 0 to 3 LOW, below 0 VERY LOW) and reports
\* max(0, raw) as risk_score, so that VERY LOW comes with a reported 0.
C10_LevelOnRawScore ==
    Returned("assess_contract_risks") =>
        LET raw == RawRiskScore[call.text]
            risk == call.ret
        IN  /\ risk.risk_level =
                  (IF raw >= 8 THEN "HIGH"
                   ELSE IF raw >= 4 /\ raw <= 7 THEN "MEDIUM"
                   ELSE IF raw >= 0 /\ raw <= 3 THEN "LOW"
                   ELSE "VERY LOW")
            /\ risk.risk_score = (IF raw > 0 THEN raw ELSE 0)
            /\ risk.risk_level = "VERY LOW" => risk.risk_score = 0

C10_Witness ==
    /\ Returned("assess_contract_risks")
    /\ call.text = "The duties are mutual."
    /\ RawRiskScore[call.text] = -1
    /\ call.ret.risk_level = "VERY LOW"
    /\ call.ret.risk_score = 0

ThreePointPhrases ==
    {"unlimited liability", "personal guarantee", "liquidated damages",
     "specific performance", "punitive damages", "strict liability", "no cure period",
     "forfeiture"}

\* C11: a text that is one of the eight high-tier phrases worth 3 points,
\* and nothing else, is assessed LOW with a reported risk_score of 3.
C11_ThreePointPhraseScoresThree ==
    (Returned("assess_contract_risks") /\ call.text \in ThreePointPhrases) =>
        /\ call.ret.risk_level = "LOW"
        /\ call.ret.risk_score = 3

(***************************************************************************)
(* extract_precise_obligations called on texts of a few sentences          *)
(***************************************************************************)

DeliverSentence == "The contractor shall deliver goods within 30 days"

\* Sentences: of the critical and performance tables, of the payment
\* table, of no table, with no trigger, too short, of exactly 300
\* characters, and of 301
ObligationSentences ==
    { DeliverSentence,
      "The client must pay the fee",
      "The parties shall meet in the spring of each year",
      "Nothing is promised in this sentence here",
      "It will rain",
      "The supplier shall keep " \o Repeat("a", 276),
      "The supplier shall keep " \o Repeat("a", 277) }

\* The buyer's instalments, one sentence each
Instalments == [n \in 1..12 |-> "The buyer shall remit instalment number " \o Str[n]]

\* The tenant's duties, of no category, one sentence each
Rooms == [n \in 1..10 |-> "The tenant shall keep room number " \o Str[n] \o " tidy"]

RentSentence == "The tenant shall pay the rent on time"

\* One sentence, two, the first n instalments, and the rent after nine and
\* after ten other duties of the tenant
ObligationTexts ==
    {a \o "." : a \in ObligationSentences}
    \cup {a \o ". " \o b \o "." : a \in ObligationSentences, b \in ObligationSentences}
    \cup {Join[SubSeq(Instalments, 1, n), "! "] : n \in 1..Len(Instalments)}
    \cup {Join[SubSeq(Rooms, 1, n) \o <<RentSentence>>, ". "] : n \in {9, 10}}

ExtractPreciseObligationsCall ==
    Returns("extract_precise_obligations", ExtractPreciseObligations[call.text])

InitObligations ==
    /\ Started
    /\ hashseed = 0
    /\ call \in {Called("extract_precise_obligations", text, "none") : text \in ObligationTexts}

SpecObligations == InitObligations /\ [][ExtractPreciseObligationsCall]_vars

ObligationCategories ==
    {"all_obligations", "critical_obligations", "payment_obligations",
     "performance_obligations"}

Placeholder == "No specific obligations identified in this category"

\* The position in seq of the first x
FirstAt(x, seq) == CHOOSE k \in 1..Len(seq) : seq[k] = x /\ \A j \in 1..(k - 1) : seq[j] # x

\* C12: each of the four lists has no entry twice, follows the order of
\* first occurrence in the text, has at most 10 entries of at most 300
\* characters each, and is the single placeholder when no sentence
\* qualifies, so that no list is empty.
C12_ObligationLists ==
    Returned("extract_precise_obligations") =>
        LET sentences == Stripped(SplitSentences[call.text])
            starts == [k \in 1..Len(sentences) |->
                          SubSeq(sentences[k], 1, Min({300, Len(sentences[k])}))]
        IN  \A category \in ObligationCategories :
                LET list == call.ret[category]
                IN  /\ list # <<>>
                    /\ Len(list) <= 10
                    /\ \A i, j \in 1..Len(list) : i # j => list[i] # list[j]
                    /\ \A i \in 1..Len(list) : Len(list[i]) <= 300
                    /\ \/ list = <<Placeholder>>
                       \/ \A i, j \in 1..Len(list) :
                             i < j =>
                                FirstAt(SubSeq(list[i], 1, Min({300, Len(list[i])})), starts)
                                  < FirstAt(SubSeq(list[j], 1, Min({300, Len(list[j])})), starts)

GlossaryTerms == [k \in 1..Len(LegalTermDefinitions) |-> LegalTermDefinitions[k][1]]

\* Texts with no glossary term, with one named term (which may hold
\* others: "material breach" holds "breach"), with the first n terms of the
\* glossary, and with a term more than 80 characters from both ends
TermTexts ==
    {"", "The parties met on Monday.", "Agreement of each Party on the Terms"}
    \cup {"The clause on " \o GlossaryTerms[k] \o " applies" : k \in 1..Len(GlossaryTerms)}
    \cup {Join[SubSeq(GlossaryTerms, 1, n), ", "] : n \in 1..20}
    \cup {Repeat("x ", 60) \o word \o Repeat(" y", 60) : word \in {"HEREBY", "Force Majeure"}}

ExtractLegalTermsFromTextCall ==
    Returns("extract_legal_terms_from_text", ExtractLegalTermsFromText[call.text])

InitTerms ==
    /\ Started
    /\ hashseed = 0
    /\ call \in {Called("extract_legal_terms_from_text", text, "none") : text \in TermTexts}

SpecTerms == InitTerms /\ [][ExtractLegalTermsFromTextCall]_vars

\* The glossary terms that occur in the text, by their place in the glossary
TermsIn(text) ==
    {k \in 1..Len(GlossaryTerms) : Contains[Lower[text], GlossaryTerms[k]]}

\* C14: the list returned is never empty and has at most 15 entries; with no
\* glossary term in the text it is the three default terms Agreement, Party,
\* Terms; with one or more it is the glossary terms that occur, the first 15
\* in the order of the glossary, each with its definition and a context of
\* at most 200 characters taken from the text, and no default term.
C14_LegalTerms ==
    Returned("extract_legal_terms_from_text") =>
        LET terms == call.ret
            matched == TermsIn(call.text)
            first == Take(Pick(GlossaryTerms, matched), 15)
        IN  /\ Len(terms) \in 1..15
            /\ matched = {} =>
                  [k \in 1..Len(terms) |-> terms[k].term] = <<"Agreement", "Party", "Terms">>
            /\ matched # {} =>
                  /\ [k \in 1..Len(terms) |-> terms[k].term]
                         = [k \in 1..Len(first) |-> Title[first[k]]]
                  /\ \A k \in 1..Len(terms) :
                        /\ terms[k].term \notin {"Agreement", "Party", "Terms"}
                        /\ \E g \in matched :
                              /\ GlossaryTerms[g] = first[k]
                              /\ terms[k].definition = LegalTermDefinitions[g][2]
                        /\ Len(terms[k].context) <= 200
                        /\ Contains[call.text, terms[k].context]
                        /\ Contains[Lower[terms[k].context], first[k]]

\* Both cases: the defaults for a text with no term, and 15 of 20 terms
C14_WitnessDefaults ==
    /\ Returned("extract_legal_terms_from_text")
    /\ call.text = "Agreement of each Party on the Terms"
    /\ Len(call.ret) = 3
    /\ call.ret[1].term = "Agreement"

C14_Witness ==
    /\ Returned("extract_legal_terms_from_text")
    /\ Cardinality(TermsIn(call.text)) > 15
    /\ Len(call.ret) = 15
    /\ call.ret[15].term = "Cure"

(***************************************************************************)
(* extract_key_entities on its own, in processes of either hash seed        *)
(***************************************************************************)

\* $25, $50, ... $500: 20 different amounts
DollarAmounts == [n \in 1..20 |-> "$" \o Str[n * 25]]

EntityFragments ==
    << "$1,200.50", "750 dollars", "300 USD", "12/31/2024", "March 5, 2025", "15%",
       "2.5 percent", "30 days", "6 months", "12 Main Street", "555-123-4567",
       "legal@example.com", "no entity here" >>

\* The first n amounts, each fragment once, twice, and next to its neighbour
EntityTexts ==
    {Join[SubSeq(DollarAmounts, 1, n), " "] : n \in 0..Len(DollarAmounts)}
    \cup {EntityFragments[k] : k \in 1..Len(EntityFragments)}
    \cup {EntityFragments[k] \o " and " \o EntityFragments[k] : k \in 1..Len(EntityFragments)}
    \cup {EntityFragments[k] \o " or " \o EntityFragments[k + 1] :
             k \in 1..(Len(EntityFragments) - 1)}

ExtractKeyEntitiesCall ==
    Returns("extract_key_entities", ExtractKeyEntities[call.text, hashseed])

InitEntities ==
    /\ Started
    /\ call \in {Called("extract_key_entities", text, "none") : text \in EntityTexts}

SpecEntities == InitEntities /\ [][ExtractKeyEntitiesCall]_vars

EntityTypes ==
    {"amounts", "dates", "percentages", "timeframes", "addresses", "phone_numbers",
     "email_addresses"}

\* re.findall(pattern, text, re.IGNORECASE) for the pattern of the family
MatchesOf(entity_type, text) ==
    LET k == CHOOSE i \in 1..Len(EntityPatterns) : EntityPatterns[i].name = entity_type
    IN  FindAll(EntityPatterns[k].re, text)

\* C15: the result has the seven entity families as its keys; the list of a
\* family has no entry twice, each entry is a match of the family's pattern
\* in the text, and it has min(10, number of distinct matches) entries: 10
\* in the amounts field for a text with 20 different dollar amounts.
C15_EntityLists ==
    Returned("extract_key_entities") =>
        /\ DOMAIN call.ret = EntityTypes
        /\ \A entity_type \in EntityTypes :
              LET list == call.ret[entity_type]
                  matches == MatchesOf(entity_type, call.text)
                  found == {matches[k] : k \in 1..Len(matches)}
              IN  /\ \A i, j \in 1..Len(list) : list[i] = list[j] => i = j
                  /\ \A i \in 1..Len(list) : list[i] \in found
                  /\ Len(list) = Min({10, Cardinality(found)})
        /\ call.text = Join[DollarAmounts, " "] => Len(call.ret.amounts) = 10

C15_Witness ==
    /\ Returned("extract_key_entities")
    /\ call.text = Join[DollarAmounts, " "]
    /\ Cardinality({x \in {DollarAmounts[n] : n \in 1..20} : Contains[call.text, x]}) = 20
    /\ Len(call.ret.amounts) = 10
    /\ call.ret.amounts[1] = "$50"

(***************************************************************************)
(* ask_keyword_question on its own                                         *)
(***************************************************************************)

\* Questions of one topic, of two, of none; "weekend" holds "end"
KeywordQuestions ==
    { "What is the payment schedule?",
      "When does the payment end?",
      "Is there a duty to pay damages on termination?",
      "How can I terminate and what is the risk?",
      "Can I cancel?",
      "What about the weekend?",
      "What liability must I bear?",
      "What shall the supplier do?",
      "Who is the supplier of the goods?",
      "" }

RentLine == "Rent: $500 due monthly"

\* Contexts of lines: the rent line first, fourth among payment lines, alone
\* with white space around it, and contexts with four lines of another topic
KeywordContexts ==
    { "",
      "Nothing of note.\nSigned today.",
      RentLine \o "\nThe buyer shall pay the fee.\nThe cost is shared.\nAn amount is owed.",
      "The buyer shall pay the fee.\nThe cost is shared.\nAn amount is owed.\n" \o RentLine,
      "The buyer shall pay the fee.\nNothing of note.\n  " \o RentLine \o "  \nThe term may end.",
      "\t$500 due monthly \n",
      "Either party may terminate.\nThe term shall end in May.\nThe buyer may cancel.\nRights expire then.",
      "Liability is capped.\nNo damage is owed.\nThe risk passes on delivery.\nLoss of profit is excluded.",
      "The seller shall deliver.\nThe buyer must inspect.\nA duty of care applies.\nNotice is required.",
      "The supplier of the goods is the seller named above. The goods are the supplier's own" }

AskKeywordQuestionCall ==
    Returns("ask_keyword_question", AskKeywordQuestion(call.text.question, call.text.context))

InitKeyword ==
    /\ Started
    /\ hashseed = 0
    /\ call \in {Called("ask_keyword_question", [question |-> question, context |-> context],
                        "none") :
                    question \in KeywordQuestions, context \in KeywordContexts}

SpecKeyword == InitKeyword /\ [][AskKeywordQuestionCall]_vars

\* The lines of the context that hold one of the words, stripped, in order
LinesWith(context, words) ==
    LET lines == SplitChar[context, "\n"]
    IN  Stripped(Pick(lines, {k \in 1..Len(lines) : AnyIn[Lower[lines[k]], words]}))

PaymentLineWords == <<"payment", "pay", "fee", "cost", "$", "amount">>

\* The lines of the context that hold "$500 due monthly"
DueMonthlyLines(context) ==
    LET lines == SplitChar[context, "\n"]
    IN  {lines[k] : k \in {i \in 1..Len(lines) : Contains[lines[i], "$500 due monthly"]}}

\* C16 as the specification states it: for any context with a line that
\* holds "$500 due monthly", the answer of the keyword fallback to "What is
\* the payment schedule?" contains that line (without the white space
\* around it), with confidence 0.7.
C16_AnyContextHasTheLine ==
    (/\ Returned("ask_keyword_question")
     /\ call.text.question = "What is the payment schedule?") =>
        \A line \in DueMonthlyLines(call.text.context) :
            /\ Contains[call.ret.answer, Strip[line]]
            /\ call.ret.confidence = 7

\* C16: the answer of the keyword fallback to "What is the payment
\* schedule?" has confidence 0.7, and it contains a line of the context that
\* holds "$500 due monthly", stripped of the white space around it, when the
\* line is among the first three lines of the context that hold a payment
\* word (payment, pay, fee, cost, $, amount).
C16_AmongFirstThreePaymentLines ==
    (/\ Returned("ask_keyword_question")
     /\ call.text.question = "What is the payment schedule?") =>
        /\ call.ret.confidence = 7
        /\ LET payment_info == LinesWith(call.text.context, PaymentLineWords)
           IN  \A k \in 1..Min({3, Len(payment_info)}) :
                   Contains[payment_info[k], "$500 due monthly"] =>
                       Contains[call.ret.answer, payment_info[k]]

C16_Witness ==
    /\ Returned("ask_keyword_question")
    /\ call.text.question = "What is the payment schedule?"
    /\ call.text.context = "\t$500 due monthly \n"
    /\ call.ret.answer
         = "Based on the contract, here are the payment-related terms:\n\n$500 due monthly"
    /\ call.ret.confidence = 7

(***************************************************************************)
(* simplify_legal_language on its own                                      *)
(***************************************************************************)

LegalTerms == [k \in 1..Len(Simplifications) |-> Simplifications[k][1]]

\* "hereby" in three spellings between text that forms no other legal term
\* with it, then each legal term alone, then texts with none or several
SimplifyTexts ==
    {before \o word \o after :
        before \in {"", "I ", "here", "The parties "},
        word \in {"hereby", "HEREBY", "Hereby"},
        after \in {"", " agree", "hereof", " agree and hereby sign"}}
    \cup {"A " \o LegalTerms[k] \o " B" : k \in 1..Len(LegalTerms)}
    \cup {"", "No legal term at all", "The seller shall not assign",
          "Whereas the buyer shall cure the breach forthwith"}

SimplifyLegalLanguageCall ==
    Returns("simplify_legal_language", SimplifyLegalLanguage[call.text])

InitSimplify ==
    /\ Started
    /\ hashseed = 0
    /\ call \in {Called("simplify_legal_language", text, "none") : text \in SimplifyTexts}

SpecSimplify == InitSimplify /\ [][SimplifyLegalLanguageCall]_vars

\* The legal terms that occur in the text, whatever the case
TriggersIn(text) == {k \in 1..Len(LegalTerms) : Contains[Lower[text], LegalTerms[k]]}

OnlyHereby(text) == TriggersIn(text) = {CHOOSE k \in 1..Len(LegalTerms) : LegalTerms[k] = "hereby"}

CategoryOrder ==
    <<"payment_terms", "termination_clauses", "liability_limitations",
      "warranty_disclaimers", "confidentiality", "intellectual_property",
      "dispute_resolution">>

\* The number of keywords of the category that occur in the paragraph
KeywordCount(category, paragraph) ==
    LET t == CHOOSE i \in 1..Len(SectionKeywords) : SectionKeywords[i].section_type = category
    IN  CountIn[Lower[paragraph], SectionKeywords[t].keywords]

\* C18: a paragraph is put in the category with the highest keyword count;
\* in general_terms when every count is 0; and when several categories have
\* the highest count, above 0, in the first of them in the order
\* payment_terms, termination_clauses, liability_limitations,
\* warranty_disclaimers, confidentiality, intellectual_property,
\* dispute_resolution.
C18_HighestCountFirstWins ==
    Returned("identify_contract_sections") =>
        LET paragraphs == Paragraphs[call.text]
        IN  \A k \in 1..Len(paragraphs) :
                LET count == [c \in 1..Len(CategoryOrder) |->
                                 KeywordCount(CategoryOrder[c], paragraphs[k])]
                    Holds(bucket) == Occurrences(paragraphs[k], call.ret[bucket]) > 0
                IN  /\ (\A c \in 1..Len(CategoryOrder) : count[c] = 0) =>
                           Holds("general_terms")
                    /\ \A c \in 1..Len(CategoryOrder) :
                           Holds(CategoryOrder[c]) <=>
                               /\ count[c] > 0
                               /\ \A d \in 1..Len(CategoryOrder) : count[d] <= count[c]
                               /\ \A d \in 1..(c - 1) : count[d] < count[c]

\* Three paragraphs with a tie and one with a higher count further on
C18_Witness ==
    /\ Returned("identify_contract_sections")
    /\ call.text = "All proprietary data and each trade secret stay ours"
                     \o "\n\n" \o "The fee ends on termination or breach of the lease."
    /\ KeywordCount("confidentiality", Paragraphs[call.text][1]) = 2
    /\ KeywordCount("intellectual_property", Paragraphs[call.text][1]) = 2
    /\ call.ret.confidentiality = <<"All proprietary data and each trade secret stay ours">>
    /\ call.ret.intellectual_property = <<>>
    /\ KeywordCount("payment_terms", Paragraphs[call.text][2]) = 1
    /\ call.ret.termination_clauses = <<"The fee ends on termination or breach of the lease.">>

(***************************************************************************)
(* The reasons and the detailed analysis of assess_contract_risks          *)
(***************************************************************************)

\* The entries of the indicator table whose phrase occurs in the text
Present(text) ==
    {k \in 1..Len(RiskIndicators) : Contains[Lower[text], RiskIndicators[k].indicator]}

ReasonOf(k) ==
    "Found '" \o RiskIndicators[k].indicator \o "' which "
    \o (IF RiskIndicators[k].points > 0 THEN "increases" ELSE "reduces") \o " risk"

\* The points, the reasons and the entries the three rules after the table
\* add: "without limitation" 2 points, a reason and an entry; "at will" 1
\* point and a reason; more than two penalties 2 points and a reason
OtherPoints(text) ==
    WithoutLimitation[Lower[text]] + AtWill[Lower[text]] + ManyPenalties[Lower[text]]

OtherReasons(text) ==
    (IF WithoutLimitation[Lower[text]] > 0 THEN 1 ELSE 0)
    + (IF AtWill[Lower[text]] > 0 THEN 1 ELSE 0)
    + (IF ManyPenalties[Lower[text]] > 0 THEN 1 ELSE 0)

\* C19: every indicator of the table that occurs in the text adds its
\* points to the score and gives one reason and one entry of the detailed
\* analysis, an indicator that does not occur gives none; reasons has 1 to
\* 10 entries and detailed_analysis 1 to 8, the first of those given; the
\* fallback entry stands in a list exactly when nothing was given for it.
C19_ReasonsAndDetails ==
    Returned("assess_contract_risks") =>
        LET present == Present(call.text)
            reasons == call.ret.reasons
            details == call.ret.detailed_analysis
            factors == [k \in 1..Len(details) |-> details[k].factor]
            Rank(k) == Cardinality({j \in present : j <= k})
            given_reasons == Cardinality(present) + OtherReasons(call.text)
            given_details == Cardinality(present) + WithoutLimitation[Lower[call.text]] \div 2
        IN  /\ call.ret.risk_score
                 = Max({0, Sum[[k \in 1..Len(RiskIndicators) |->
                                  IF k \in present THEN RiskIndicators[k].points ELSE 0]]
                           + OtherPoints(call.text)})
            /\ \A k \in 1..Len(RiskIndicators) :
                  /\ Occurrences(ReasonOf(k), reasons)
                        = IF k \in present /\ Rank(k) <= 10 THEN 1 ELSE 0
                  /\ Occurrences(RiskIndicators[k].indicator, factors)
                        = IF k \in present /\ Rank(k) <= 8 THEN 1 ELSE 0
                  /\ (k \in present /\ Rank(k) <= 10) => reasons[Rank(k)] = ReasonOf(k)
                  /\ (k \in present /\ Rank(k) <= 8) =>
                        /\ factors[Rank(k)] = RiskIndicators[k].indicator
                        /\ details[Rank(k)].impact
                             = (IF RiskIndicators[k].points > 0 THEN "increases" ELSE "reduces")
                               \o " risk by "
                               \o Str[IF RiskIndicators[k].points > 0
                                      THEN RiskIndicators[k].points
                                      ELSE 0 - RiskIndicators[k].points]
                               \o " points"
            /\ Len(reasons) = (IF given_reasons = 0 THEN 1 ELSE Min({10, given_reasons}))
            /\ Len(details) = (IF given_details = 0 THEN 1 ELSE Min({8, given_details}))
            /\ Len(reasons) \in 1..10
            /\ Len(details) \in 1..8
            /\ given_reasons = 0
                  <=> reasons = <<"Standard contract terms with typical risk level">>
            /\ given_details = 0
                  <=> details = <<[factor  |-> "general terms",
                                   impact  |-> "standard risk level",
                                   context |-> "No specific high-risk factors identified"]>>

\* A text with a reason and no entry: the fallback in detailed_analysis only
C19_WitnessFallback ==
    /\ Returned("assess_contract_risks")
    /\ call.text = "Either side may leave at will."
    /\ call.ret.reasons = <<"At-will provisions increase uncertainty">>
    /\ call.ret.detailed_analysis[1].factor = "general terms"

\* A text with more indicators than the lists keep
C19_Witness ==
    /\ Returned("assess_contract_risks")
    /\ Cardinality(Present(call.text)) > 10
    /\ Len(call.ret.reasons) = 10
    /\ Len(call.ret.detailed_analysis) = 8

(***************************************************************************)
(* The topic of a question in the keyword fallback                         *)
(***************************************************************************)

\* The topics in their order of priority, each named by its answer when no
\* line matches: payment, termination, risk and liability, obligation
PriorityOrder ==
    << "No specific payment terms found in this contract.",
       "No specific termination clauses found in this contract.",
       "No specific liability or risk clauses found.",
       "No specific obligations found." >>

TopicAt(p) == CHOOSE t \in 1..Len(Topics) : Topics[t].none = PriorityOrder[p]

\* The topics with one of their words in the question, by priority
TopicsAsked(question) ==
    {p \in 1..Len(PriorityOrder) : AnyIn[Lower[question], Topics[TopicAt(p)].ask]}

BeginsWith(s, prefix) == Len(s) >= Len(prefix) /\ SubSeq(s, 1, Len(prefix)) = prefix

FourPaymentLines ==
    "The buyer shall pay the fee.\nThe cost is shared.\nAn amount is owed.\n" \o RentLine

FourTerminationLines ==
    "Either party may terminate.\nThe term shall end in May.\nThe buyer may cancel.\nRights expire then."

\* C20: the topic of the question is the first of payment, termination,
\* risk and liability, obligation with one of its words in the question;
\* the answer is the topic's heading and the first 3 lines of the context,
\* in their order, that hold a word of the topic's line words, or the
\* topic's not-found message when no line does; the ranking by shared words
\* answers only a question with no word of any topic.
C20_TopicPriority ==
    Returned("ask_keyword_question") =>
        LET question == call.text.question
            context == call.text.context
            answer == call.ret.answer
            Generic == \/ answer = GenericNone
                       \/ BeginsWith(answer, GenericHead)
        IN  /\ TopicsAsked(question) # {} =>
                  LET topic == Topics[TopicAt(Min(TopicsAsked(question)))]
                      lines == LinesWith(context, topic.look)
                  IN  /\ lines = <<>> => answer = topic.none
                      /\ lines # <<>> => answer = topic.head \o Join[Take(lines, 3), "\n\n"]
                      /\ ~Generic
            /\ TopicsAsked(question) = {} => Generic
            /\ (question = "When does the payment end?" /\ context = FourTerminationLines) =>
                  answer = "No specific payment terms found in this contract."
            /\ (question = "What liability must I bear?" /\ context = FourTerminationLines) =>
                  answer = "No specific liability or risk clauses found."

\* A question with a payment word and a termination word, and a context
\* with four payment lines and no other
C20_Witness ==
    /\ Returned("ask_keyword_question")
    /\ call.text.question = "When does the payment end?"
    /\ TopicsAsked(call.text.question) = {1, 2}
    /\ call.text.context = FourPaymentLines
    /\ call.ret.answer
         = "Based on the contract, here are the payment-related terms:\n\n"
           \o "The buyer shall pay the fee.\n\nThe cost is shared.\n\nAn amount is owed."

\* A question with no word of any topic, answered by the ranking
C20_WitnessGeneric ==
    /\ Returned("ask_keyword_question")
    /\ call.text.question = "Who is the supplier of the goods?"
    /\ TopicsAsked(call.text.question) = {}
    /\ BeginsWith(call.ret.answer, GenericHead)

(***************************************************************************)
(* _extract_relevant_clauses on its own                                    *)
(***************************************************************************)

\* A sentence of n characters (n > 11) with the words "the", "fee" and "is"
FeeSentence(n) == "the fee is " \o Repeat("x", n - 11)

\* Lengths on both sides of 30, of 50 and of 250, seven of them above 50
ClauseLengths == <<29, 30, 31, 50, 51, 60, 70, 80, 250, 251, 300>>

ClauseSentences == [k \in 1..Len(ClauseLengths) |-> FeeSentence(ClauseLengths[k])]

\* One sentence, the first n, all but one
ClauseContexts ==
    {ClauseSentences[k] \o "." : k \in 1..Len(ClauseSentences)}
    \cup {Join[SubSeq(ClauseSentences, 1, n), ". "] : n \in 1..Len(ClauseSentences)}
    \cup {Join[Pick(ClauseSentences, (1..Len(ClauseSentences)) \ {k}), "! "] :
             k \in 1..Len(ClauseSentences)}

\* Questions sharing three words, three in capitals, one and none
ClauseQuestions == {"What is the fee", "THE FEE IS", "fee", ""}

ExtractRelevantClausesCall ==
    Returns("_extract_relevant_clauses",
            ExtractRelevantClauses[call.text.context, call.text.question])

InitClauses ==
    /\ Started
    /\ hashseed = 0
    /\ call \in {Called("_extract_relevant_clauses",
                        [question |-> question, context |-> context], "none") :
                    question \in ClauseQuestions, context \in ClauseContexts}

SpecClauses == InitClauses /\ [][ExtractRelevantClausesCall]_vars

\* C21: the clauses returned are, in the order of the context, the first 5
\* at most of its sentences that are longer than 30 characters and share 2
\* or more lowered words with the question, each cut to 250 characters.
C21_RelevantClauses ==
    Returned("_extract_relevant_clauses") =>
        LET sentences == Stripped(SplitSentences[call.text.context])
            question_words == WordSet[Lower[call.text.question]]
            eligible == Pick(sentences,
                             {k \in 1..Len(sentences) :
                                 /\ Len(sentences[k]) > 30
                                 /\ Overlap(question_words, sentences[k]) >= 2})
        IN  /\ Len(call.ret) <= 5
            /\ call.ret = [k \in 1..Min({5, Len(eligible)}) |->
                              SubSeq(eligible[k], 1, Min({250, Len(eligible[k])}))]

(***************************************************************************)
(* The first two calls of generate_executive_summary:                      *)
(* _determine_contract_type, then _extract_main_subject with its result    *)
(***************************************************************************)

\* Words of no type, of one, of two types alike (the one declared first
\* wins), of a later type more than of an earlier one
TypeFragments ==
    << "", "Nothing of note", "Goods", "materials", "provide a job",
       "the tenant pays rent to the landlord", "a loan",
       "the employee has a salary and a loan", "a software license and a patent",
       "each partner", "confidential under the nda",
       "the supplier shall deliver goods" >>

\* Sentences for no template, for one, for two (the first template wins
\* though its match comes later), for a capture too short, of white space
SubjectFragments ==
    << "",
       " For the benefit of all concerned.",
       " Regarding the x. Related to THE end.",
       " This agreement covers the sale of ten machines. The purpose of this agreement is to sell machines quickly.",
       " Supply of widgets and gadgets for the plant. Concerning the annual review of it all.",
       " The purpose of this agreement is           ." >>

SubjectTexts ==
    {TypeFragments[i] \o SubjectFragments[j] :
        i \in 1..Len(TypeFragments), j \in 1..Len(SubjectFragments)}

DetermineContractTypeCall ==
    /\ call.method = "generate_executive_summary"
    /\ call.pc = "called"
    /\ call' = [call EXCEPT !.pc = "_extract_main_subject",
                            !.ret = [contract_type |-> DetermineContractType[call.text]]]
    /\ UNCHANGED <<processor, hashseed, restarts, served, loop, req>>

ExtractMainSubjectCall ==
    /\ call.method = "generate_executive_summary"
    /\ call.pc = "_extract_main_subject"
    /\ call' = [call EXCEPT !.pc = "summary_parts",
                            !.ret = [contract_type |-> call.ret.contract_type,
                                     main_subject |->
                                        ExtractMainSubject[call.text, call.ret.contract_type]]]
    /\ UNCHANGED <<processor, hashseed, restarts, served, loop, req>>

InitSubject ==
    /\ Started
    /\ hashseed = 0
    /\ call \in {Called("generate_executive_summary", text, "none") : text \in SubjectTexts}

NextSubject == DetermineContractTypeCall \/ ExtractMainSubjectCall

SpecSubject == InitSubject /\ [][NextSubject]_vars

\* The number of keywords of the archetype that occur in the lowered text
TypeScore(t, text) == CountIn[Lower[text], ContractTypes[t].keywords]

\* The templates with a match in the text
TemplatesMatching(text) ==
    {p \in 1..Len(SubjectPatterns) : FindAll(SubjectPatterns[p], text) # <<>>}

\* C22: the contract type is the archetype of the highest score, the one
\* declared first when several have it, and "general agreement" exactly
\* when the ten scores are 0; the main subject is the static phrase of the
\* type (the generic phrase for "general agreement") exactly when none of
\* the four templates matches, and otherwise what the first template with a
\* match, in their order, captured.
C22_TypeAndSubject ==
    (call.method = "generate_executive_summary" /\ call.pc = "summary_parts") =>
        LET text == call.text
            contract_type == call.ret.contract_type
            main_subject == call.ret.main_subject
            types == 1..Len(ContractTypes)
            matching == TemplatesMatching(text)
        IN  /\ Len(ContractTypes) = 10
            /\ contract_type = "general agreement" <=> \A t \in types : TypeScore(t, text) = 0
            /\ \A t \in types :
                  contract_type = ContractTypes[t].contract_type <=>
                      /\ TypeScore(t, text) > 0
                      /\ \A u \in types : TypeScore(u, text) <= TypeScore(t, text)
                      /\ \A u \in 1..(t - 1) : TypeScore(u, text) < TypeScore(t, text)
            /\ matching = {} =>
                  /\ contract_type = "general agreement" =>
                        main_subject = "business relationship and obligations"
                  /\ \A t \in types :
                        contract_type = ContractTypes[t].contract_type =>
                            main_subject = ContractTypes[t].subject
            /\ matching # {} =>
                  /\ main_subject = Strip[FindAll(SubjectPatterns[Min(matching)], text)[1]]
                  /\ Contains[text, main_subject]
                  /\ Len(main_subject) <= 50
            /\ text = "Goods" =>
                  /\ contract_type = "purchase agreement"
                  /\ main_subject = "goods purchase and delivery"
            /\ text = "the supplier shall deliver goods" => contract_type = "supply agreement"
            /\ text = TypeFragments[1] \o SubjectFragments[5] =>
                  /\ contract_type = "supply agreement"
                  /\ main_subject = "annual review of it all"

\* A tie of purchase and supply with no template, and two templates matching
C22_Witness ==
    /\ call.method = "generate_executive_summary"
    /\ call.pc = "summary_parts"
    /\ call.text = "Goods"
    /\ TypeScore(4, call.text) = 1
    /\ TypeScore(10, call.text) = 1
    /\ TemplatesMatching(call.text) = {}
    /\ call.ret = [contract_type |-> "purchase agreement",
                   main_subject |-> "goods purchase and delivery"]

C22_WitnessTemplate ==
    /\ call.method = "generate_executive_summary"
    /\ call.pc = "summary_parts"
    /\ TemplatesMatching(call.text) = {1, 2}
    /\ call.ret.main_subject = "annual review of it all"

(***************************************************************************)
(* The lists of extract_precise_obligations against one another            *)
(***************************************************************************)

\* C23: every entry of critical_obligations, payment_obligations and
\* performance_obligations other than the placeholder is an entry of
\* all_obligations, also for a text with more than 10 obligation sentences.
C23_CategoriesWithinAll ==
    Returned("extract_precise_obligations") =>
        \A category \in ObligationCategories :
            \A i \in 1..Len(call.ret[category]) :
                \/ call.ret[category][i] = Placeholder
                \/ \E j \in 1..Len(call.ret.all_obligations) :
                       call.ret.all_obligations[j] = call.ret[category][i]

(***************************************************************************)
(* The fallback entries of assess_contract_risks                           *)
(***************************************************************************)

\* A rule fired: an indicator of the table occurs, or one of the three
\* rules after the table added points
RuleFired(text) == Present(text) # {} \/ OtherPoints(text) > 0

\* C24: the fallback reason and the fallback entry of the detailed analysis
\* stand in the result only when no rule fired (no indicator, no "without
\* limitation", no "at will", no more than two penalties); when a rule
\* fired, neither list is its fallback.
C24_FallbackOnlyWhenNothingFired ==
    Returned("assess_contract_risks") =>
        LET reasons == call.ret.reasons
            factors == [k \in 1..Len(call.ret.detailed_analysis) |->
                           call.ret.detailed_analysis[k].factor]
            contexts == [k \in 1..Len(call.ret.detailed_analysis) |->
                            call.ret.detailed_analysis[k].context]
        IN  /\ Occurrences("Standard contract terms with typical risk level", reasons) > 0
                  => ~RuleFired(call.text)
            /\ (\/ Occurrences("general terms", factors) > 0
                \/ Occurrences("No specific high-risk factors identified", contexts) > 0)
                  => ~RuleFired(call.text)

(***************************************************************************)
(* The counts in the result of process_contract                            *)
(***************************************************************************)

\* The entries of all_obligations that are sentences of the text
ObligationsFound(obligations) ==
    Cardinality({k \in 1..Len(obligations.all_obligations) :
                    obligations.all_obligations[k] # Placeholder})

\* The rules of assess_contract_risks that fired on the text
RulesFired(text) == Cardinality(Present(text)) + OtherReasons(text)

\* C25: in a success result the key point "Total obligations: N" has for N
\* the number of obligation sentences in all_obligations, the placeholder
\* not counted (0 when no sentence qualifies), and the executive summary
\* says "N identified risk factors" for the number N of risk rules that
\* fired (0 when the fallback reason is the only reason).
C25_CountsOfFindings ==
    (Returned("process_contract") /\ call.ret.processing_status = "success") =>
        /\ call.ret.detailed_summary.key_points[4]
             = "Total obligations: " \o Str[ObligationsFound(call.ret.obligations)]
        /\ Contains[call.ret.detailed_summary.executive_summary,
                    " with " \o Str[RulesFired(call.text)] \o " identified risk factors."]

(***************************************************************************)
(* The singleton of get_processor under the handlers, health_check among   *)
(* them, in a server process that may be started again                     *)
(***************************************************************************)

\* health_check: get_processor() inside try, a dictionary either way (the
\* response is a 200 also when the constructor raised)
HealthCheck(c) ==
    /\ loop = Nobody
    /\ req[c].pc = "pending"
    /\ req[c].kind = "health"
    /\ \E env \in EnvironmentsMet(processor) :
          LET p == GetProcessor(processor, env)
          IN  /\ processor' = p
              /\ req' = [req EXCEPT ![c] =
                    Respond(req[c], 200,
                            IF p.made
                            THEN [status |-> "healthy", model_loaded |-> TRUE,
                                  message |-> "All systems operational",
                                  model_info |-> "InLegalBERT loaded successfully"]
                            ELSE [status |-> "unhealthy", model_loaded |-> FALSE,
                                  error |-> "Error loading model"])]
    /\ UNCHANGED <<hashseed, restarts, served, loop, call>>

SingletonAskInputs ==
    {AskArg("Who pays the fee now?", "The buyer pays the fee now.\nThe seller ships.")}

NextSingleton ==
    \/ \E c \in Clients : Arrive(c, "health", NoArg)
    \/ \E c \in Clients : HealthCheck(c)
    \/ \E c \in Clients : Arrive(c, "analyze_text", AnalyzeArg(Doc100))
    \/ \E c \in Clients : AnalyzeText(c, {"none"})
    \/ NextAsk(SingletonAskInputs, ShortLLMTexts)
    \/ Restart

SpecSingleton == InitQA /\ [][NextSingleton]_vars

\* The handler of c calls get_processor in this step
CallsGetProcessor(c) ==
    /\ req[c].pc = "pending"
    /\ req'[c].pc # "pending"
    /\ ~(req'[c].pc = "done" /\ req'[c].status = 400)

\* The response of a request whose get_processor raised
ConstructionFailed(r) ==
    /\ r.pc = "done"
    /\ IF r.kind = "health"
       THEN r.status = 200 /\ r.body.status = "unhealthy" /\ ~r.body.model_loaded
       ELSE r.status = 500 /\ "detail" \in DOMAIN r.body
                           /\ Contains[r.body.detail, "Error loading model"]

\* C26: in one server process the processor is constructed at most once: a
\* singleton that is set stays the same instance through every later call
\* of get_processor; a call whose construction raises leaves it unset and
\* its request reports the error (health_check answers "unhealthy", the
\* other handlers a 500), a call that returns leaves it set and reports no
\* such error; and while it is unset the next call constructs again, so it
\* can succeed.
C26_ConstructedOnce ==
    /\ [][/\ (processor.made /\ restarts' = restarts) => processor' = processor
          /\ \A c \in Clients :
                CallsGetProcessor(c) =>
                    /\ processor'.made <=> ~ConstructionFailed(req'[c])
                    /\ ~processor'.made => processor' = NoProcessor
                    /\ (processor.made \/ processor'.made) =>
                          (req'[c].gemini = "unread" \/ req'[c].gemini = processor'.gemini_model)
          /\ (\A c \in Clients : ~CallsGetProcessor(c)) =>
                (processor' = processor \/ restarts' # restarts)]_vars
    /\ [](\A c \in Clients :
            (~processor.made /\ loop = Nobody /\ req[c].pc = "pending"
                /\ req[c].kind = "health") =>
                    ENABLED (HealthCheck(c) /\ processor'.made))

\* A first call whose construction raised, then a call that constructed, in
\* the same process
C26_Witness ==
    /\ restarts = 0
    /\ processor.made
    /\ req["a"].kind = "health"
    /\ ConstructionFailed(req["a"])
    /\ req["b"].kind = "analyze_text"
    /\ req["b"].pc = "done"
    /\ req["b"].status = 200

\* Two calls after the construction, both served by the instance
C26_WitnessSameInstance ==
    /\ restarts = 0
    /\ processor.made
    /\ processor.gemini_model = "None"
    /\ req["a"].kind = "health" /\ req["a"].pc = "done" /\ req["a"].body.status = "healthy"
    /\ req["b"].kind = "ask_question" /\ req["b"].pc = "done"
    /\ req["b"].gemini = "None"

====
